---- MODULE Spec2Model ----
(***************************************************************************)
(* kport: the forwarding session (PortForwarder) in its two transports.    *)
(*                                                                         *)
(*   "listener": the session binds a local listener, runs an accept loop   *)
(*               and bridges every accepted connection over an ssh client  *)
(*               (src/README.md:471-599).                                  *)
(*   "process":  the session spawns one `ssh -L` process that owns the     *)
(*               tunnel and a monitor task (src/port_forwarder.go:21-115). *)
(*                                                                         *)
(* Callers are goroutines that call Start and Stop on a session; every     *)
(* statement that another goroutine can observe is a step of its own.      *)
(***************************************************************************)
EXTENDS Integers, FiniteSets, Sequences, TLC

\* Bounds of the model: calls made on the API, client connections over the
\* life of a session, local ports.
MaxCalls == 4
MaxConns == 1
NumPorts == 2
\* Runs of DetectPorts and StartForward commands the operator issues, hosts in
\* the configuration, digits typed into the manual-port buffer, bytes written on the bridged connections, lines of an
\* enumeration command's output.
MaxDetects == 1
MaxForwards == 1
NumHosts == 1
MaxDigits == 2
MaxBytes == 2
MaxLines == 3
NumFiles == 3

\* Two goroutines use the API at the same time; goroutine t's StartForward
\* request creates session t.
Callers == {1, 2}
Sessions == Callers
Ports == 1..NumPorts
Detects == 1..MaxDetects

VARIABLES
    variant,    \* which transport the build uses: "listener" or "process"
    caller,     \* caller[t]: position of goroutine t, its session, its last result
    calls,      \* number of Start/Stop calls begun so far
    pf,         \* pf[s]: the fields of PortForwarder s
    task,       \* task[s]: accept loop / monitor task of session s
    conns,      \* conns[c]: a local client connection and its handler
    proc,       \* proc[s]: the ssh process behind pf[s].sshCmd
    bound,      \* bound[p]: who holds local port p
    req,        \* req[t]: the StartForward request run by goroutine t
    crashed,    \* a goroutine panicked: the process is gone
    hist,       \* hist[s]: history of session s (counts used by the properties)
    m,          \* the TUI Model
    det,        \* det[d]: a run of the DetectPorts command
    remoteHost, \* what the remote host answers to discovery
    wire,       \* wire[c]: the bytes written to and delivered on connection c
    sc          \* the SSHConfig being loaded, with the files it reads

vars == <<variant, caller, calls, pf, task, conns, proc, bound, req, crashed, hist,
          m, det, remoteHost, wire, sc>>

Variants == {"listener", "process"}

\* Connection slots: the domain of conns, fixed by the initial state.
Conns == DOMAIN conns

\* ---------------------------------------------------------------------------
\* Values after construction
\* ---------------------------------------------------------------------------

NoForwarder ==
    [made |-> FALSE, sshClient |-> "nil", localPort |-> 0, remotePort |-> 0,
     listener |-> "nil", sshCmd |-> "nil", stopChan |-> "open", wg |-> 0,
     isRunning |-> FALSE, mu |-> 0]

\* The listener transport is given a connected ssh client, the process
\* transport a host name (client = "nil").
NewPortForwarder(client, local, remote) ==
    [made |-> TRUE, sshClient |-> client, localPort |-> local,
     remotePort |-> remote, listener |-> "nil", sshCmd |-> "nil",
     stopChan |-> "open", wg |-> 0, isRunning |-> FALSE, mu |-> 0]

\* manual and text record how the request was made: with a port chosen from
\* the list, or with the text typed as a port.
NoRequest ==
    [remote |-> 0, local |-> 0, same |-> FALSE, msg |-> "none",
     manual |-> FALSE, text |-> <<>>]

NoTask == [accept |-> "none", held |-> 0, monitor |-> "none"]

NoConn ==
    [st |-> "free", s |-> 0, l2r |-> "none", r2l |-> "none",
     local |-> "none", remote |-> "nil",
     clientClosed |-> FALSE, remoteClosed |-> FALSE]

NoHist ==
    [closes |-> 0, starts |-> 0, teardowns |-> 0, liveProcs |-> 0,
     openListeners |-> 0, midCopy |-> {}]

IdleCaller(s) == [pc |-> "idle", s |-> s, ret |-> "none"]

\* The Model after NewModel() and Init() have loaded a configuration with h
\* hosts: Init records an error when there is none, and the program goes on.
\* Indices (cursor, selectedHost, selectedPort) count from 0 as in the source;
\* forwarder = 0 is the nil pointer.
NewModel(h) ==
    [state |-> "SelectHost", hosts |-> h, selectedHost |-> 0, ports |-> <<>>,
     selectedPort |-> 0, cursor |-> 0, manualPort |-> <<>>, forwarder |-> 0,
     err |-> IF h = 0 THEN "no hosts" ELSE "nil", quit |-> FALSE, pc |-> "ready"]

\* A DetectPorts command that has not been issued.
NoDetect ==
    [pc |-> "idle", host |-> 0, k |-> 0, err |-> FALSE, output |-> <<>>,
     i |-> 0, openPorts |-> <<>>, msg |-> "none", ports |-> <<>>,
     ran |-> <<>>, probed |-> <<>>, shell |-> <<>>]

\* A remote host that cannot be reached.
NoRemoteHost == [reach |-> "no", output |-> <<>>, listening |-> {}]

\* One direction of a connection: the bytes its writer has sent, how many of
\* them io.Copy has read, the chunk io.Copy holds between its Read and its
\* Write, and the bytes delivered to the other end.
NoStream == [sent |-> <<>>, read |-> 0, buf |-> <<>>, rcvd |-> <<>>]

NoWire == [l2r |-> NoStream, r2l |-> NoStream]

\* The SSHConfig before LoadConfigFromFile: Hosts is sc.Hosts, visited the map
\* of the loader, stack its calls in progress, opens the files opened so far.
NoConfig ==
    [pc |-> "idle", files |-> <<>>, stack |-> <<>>, visited |-> {},
     Hosts |-> <<>>, warnings |-> 0, opens |-> <<>>]

\* ---------------------------------------------------------------------------
\* Helpers
\* ---------------------------------------------------------------------------

SessOf(t) == caller[t].s

\* A panic ends the process, and so does tea.Quit (p.Run returns and main
\* returns): no goroutine takes a step afterwards.
Alive == ~crashed /\ ~m.quit

\* sync.Mutex.Lock blocks until the mutex is free.
MuFreeMutant(s) == TRUE
MuFree(s) == pf[s].mu = 0

\* Start or Stop returns r to the goroutine that called it.
Return(t, r) ==
    caller' = [caller EXCEPT ![t].pc = "returned", ![t].ret = r]

Goto(t, label) == caller' = [caller EXCEPT ![t].pc = label]

\* Connections waiting in the listener's backlog of session s.
Pending(s) == {c \in Conns : conns[c].st = "pending" /\ conns[c].s = s}

\* Connections of session s that have a live handler goroutine.
Handled(s) ==
    {c \in Conns : conns[c].s = s
                   /\ conns[c].st \in {"dial", "dial_failed", "copy", "exiting"}}

FreeConns == {c \in Conns : conns[c].st = "free"}

\* Owners of a local port: nobody, a foreign process, or a socket of ours.
Free == <<"free", 0>>
Other == <<"other", 0>>

\* The OS releases every port held by owner o.
Release(o) == [p \in Ports |-> IF bound[p] = o THEN Free ELSE bound[p]]

ProcAlive(s) == proc[s] \in {"connecting", "forwarding"}

\* ---------------------------------------------------------------------------
\* PortForwarder.Start
\* ---------------------------------------------------------------------------

Start_Lock(t) ==
    LET s == SessOf(t) IN
    /\ Alive
    /\ caller[t].pc = "start_lock"
    /\ MuFree(s)
    /\ pf' = [pf EXCEPT ![s].mu = t]
    /\ Goto(t, "start_check")
    /\ UNCHANGED <<variant, sc, m, det, remoteHost, wire, req, calls, task, conns, proc, bound, crashed, hist>>

\* if pf.isRunning { return error }
StartRefusedMutant(s) == FALSE
StartRefused(s) == pf[s].isRunning

Start_Check(t) ==
    LET s == SessOf(t) IN
    /\ Alive
    /\ caller[t].pc = "start_check"
    /\ IF StartRefused(s)
       THEN /\ pf' = [pf EXCEPT ![s].mu = 0]
            /\ Return(t, "err_running")
       ELSE /\ Goto(t, "start_open")
            /\ UNCHANGED pf
    /\ UNCHANGED <<variant, sc, m, det, remoteHost, wire, req, calls, task, conns, proc, bound, crashed, hist>>

\* Listener transport: net.Listen on localhost:localPort.
Start_ListenMutant(t) ==
    LET s == SessOf(t) IN
    /\ Alive
    /\ caller[t].pc = "start_open"
    /\ variant = "listener"
    /\ IF bound[pf[s].localPort] = Free
       THEN /\ pf' = [pf EXCEPT ![s].listener = "open", ![s].isRunning = TRUE]
            /\ bound' = [bound EXCEPT ![pf[s].localPort] = <<"listener", s>>]
            /\ hist' = [hist EXCEPT ![s].openListeners = @ + 1]
            /\ Goto(t, "start_launch")
       ELSE /\ pf' = [pf EXCEPT ![s].mu = 0, ![s].isRunning = TRUE]
            /\ Return(t, "err_start")
            /\ UNCHANGED <<bound, hist>>
    /\ UNCHANGED <<variant, sc, m, det, remoteHost, wire, req, calls, task, conns, proc, crashed>>

Start_Listen(t) ==
    LET s == SessOf(t) IN
    /\ Alive
    /\ caller[t].pc = "start_open"
    /\ variant = "listener"
    /\ IF bound[pf[s].localPort] = Free
       THEN /\ pf' = [pf EXCEPT ![s].listener = "open"]
            /\ bound' = [bound EXCEPT ![pf[s].localPort] = <<"listener", s>>]
            /\ hist' = [hist EXCEPT ![s].openListeners = @ + 1]
            /\ Goto(t, "start_launch")
       ELSE /\ pf' = [pf EXCEPT ![s].mu = 0]
            /\ Return(t, "err_start")
            /\ UNCHANGED <<bound, hist>>
    /\ UNCHANGED <<variant, sc, m, det, remoteHost, wire, req, calls, task, conns, proc, crashed>>

\* Process transport: pf.sshCmd = exec.Command(...); pf.sshCmd.Start().
Start_Spawn(t) ==
    LET s == SessOf(t) IN
    /\ Alive
    /\ caller[t].pc = "start_open"
    /\ variant = "process"
    /\ \E ok \in BOOLEAN :
         IF ok
         THEN /\ pf' = [pf EXCEPT ![s].sshCmd = "started"]
              /\ proc' = [proc EXCEPT ![s] = "connecting"]
              /\ hist' = [hist EXCEPT ![s].liveProcs = @ + 1]
              /\ Goto(t, "start_launch")
         ELSE /\ pf' = [pf EXCEPT ![s].sshCmd = "unstarted", ![s].mu = 0]
              /\ Return(t, "err_start")
              /\ UNCHANGED <<proc, hist>>
    /\ UNCHANGED <<variant, sc, m, det, remoteHost, wire, req, calls, task, conns, bound, crashed>>

\* pf.isRunning = true; pf.wg.Add(1); go pf.acceptConnections() / pf.monitorSSH();
\* return nil
Start_Launch(t) ==
    LET s == SessOf(t) IN
    /\ Alive
    /\ caller[t].pc = "start_launch"
    /\ pf' = [pf EXCEPT ![s].isRunning = TRUE, ![s].wg = @ + 1, ![s].mu = 0]
    /\ task' = [task EXCEPT
                  ![s].accept = IF variant = "listener" THEN "select" ELSE @,
                  ![s].monitor = IF variant = "process" THEN "select" ELSE @]
    /\ hist' = [hist EXCEPT ![s].starts = @ + 1]
    /\ Return(t, "started")
    /\ UNCHANGED <<variant, sc, m, det, remoteHost, wire, req, calls, conns, proc, bound, crashed>>

\* ---------------------------------------------------------------------------
\* PortForwarder.Stop
\* ---------------------------------------------------------------------------

Stop_Lock(t) ==
    LET s == SessOf(t) IN
    /\ Alive
    /\ caller[t].pc = "stop_lock"
    /\ MuFree(s)
    /\ pf' = [pf EXCEPT ![s].mu = t]
    /\ Goto(t, "stop_check")
    /\ UNCHANGED <<variant, sc, m, det, remoteHost, wire, req, calls, task, conns, proc, bound, crashed, hist>>

\* if !pf.isRunning { return }
StopSkippedMutant(s) == FALSE
StopSkipped(s) == ~pf[s].isRunning

Stop_Check(t) ==
    LET s == SessOf(t) IN
    /\ Alive
    /\ caller[t].pc = "stop_check"
    /\ IF StopSkipped(s)
       THEN /\ pf' = [pf EXCEPT ![s].mu = 0]
            /\ Return(t, "stop_noop")
       ELSE /\ Goto(t, "stop_signal")
            /\ UNCHANGED pf
    /\ UNCHANGED <<variant, sc, m, det, remoteHost, wire, req, calls, task, conns, proc, bound, crashed, hist>>

\* pf.isRunning = false; close(pf.stopChan).  Closing a closed channel panics.
Stop_Signal(t) ==
    LET s == SessOf(t) IN
    /\ Alive
    /\ caller[t].pc = "stop_signal"
    /\ IF pf[s].stopChan = "closed"
       THEN /\ pf' = [pf EXCEPT ![s].isRunning = FALSE]
            /\ crashed' = TRUE
            /\ Goto(t, "panic")
            /\ hist' = [hist EXCEPT ![s].teardowns = @ + 1]
       ELSE /\ pf' = [pf EXCEPT ![s].isRunning = FALSE, ![s].stopChan = "closed"]
            /\ hist' = [hist EXCEPT
                          ![s].closes = @ + 1, ![s].teardowns = @ + 1,
                          ![s].midCopy =
                              {c \in Conns : conns[c].s = s /\ conns[c].st = "copy"}]
            /\ Goto(t, "stop_release")
            /\ UNCHANGED crashed
    /\ UNCHANGED <<variant, sc, m, det, remoteHost, wire, req, calls, task, conns, proc, bound>>

\* Listener transport: if pf.listener != nil { pf.listener.Close() }.
\* Connections still in the backlog are reset by the OS.
Stop_CloseListener(t) ==
    LET s == SessOf(t) IN
    /\ Alive
    /\ caller[t].pc = "stop_release"
    /\ variant = "listener"
    /\ IF pf[s].listener = "open"
       THEN /\ pf' = [pf EXCEPT ![s].listener = "closed"]
            /\ bound' = Release(<<"listener", s>>)
            /\ conns' = [c \in Conns |->
                           IF c \in Pending(s)
                           THEN [conns[c] EXCEPT !.st = "reset"]
                           ELSE conns[c]]
            /\ hist' = [hist EXCEPT ![s].openListeners = @ - 1]
       ELSE UNCHANGED <<pf, bound, conns, hist>>
    /\ Goto(t, "stop_wait")
    /\ UNCHANGED <<variant, sc, m, det, remoteHost, wire, req, calls, task, proc, crashed>>

\* A Stop that leaves the ssh process running and goes on to wait.
Stop_KillMutant(t) ==
    /\ Alive
    /\ caller[t].pc = "stop_release"
    /\ variant = "process"
    /\ Goto(t, "stop_wait")
    /\ UNCHANGED <<variant, sc, m, det, remoteHost, wire, req, calls, pf, task, conns,
                   crashed, proc, bound, hist>>

\* Process transport: if pf.sshCmd != nil && pf.sshCmd.Process != nil { Kill() }.
Stop_Kill(t) ==
    LET s == SessOf(t) IN
    /\ Alive
    /\ caller[t].pc = "stop_release"
    /\ variant = "process"
    /\ IF pf[s].sshCmd = "started" /\ ProcAlive(s)
       THEN /\ proc' = [proc EXCEPT ![s] = "killed"]
            /\ bound' = Release(<<"ssh", s>>)
            /\ hist' = [hist EXCEPT ![s].liveProcs = @ - 1]
       ELSE UNCHANGED <<proc, bound, hist>>
    /\ Goto(t, "stop_wait")
    /\ UNCHANGED <<variant, sc, m, det, remoteHost, wire, req, calls, pf, task, conns, crashed>>

\* pf.wg.Wait(); the deferred pf.mu.Unlock(); return
Stop_Wait(t) ==
    LET s == SessOf(t) IN
    /\ Alive
    /\ caller[t].pc = "stop_wait"
    /\ pf[s].wg = 0
    /\ pf' = [pf EXCEPT ![s].mu = 0]
    /\ Return(t, "stopped")
    /\ UNCHANGED <<variant, sc, m, det, remoteHost, wire, req, calls, task, conns, proc, bound, crashed, hist>>

\* ---------------------------------------------------------------------------
\* PortForwarder.acceptConnections (listener transport)
\* ---------------------------------------------------------------------------

\* select { case <-pf.stopChan: return; default: ... }  with defer pf.wg.Done()
Accept_Select(s) ==
    /\ Alive
    /\ task[s].accept = "select"
    /\ IF pf[s].stopChan = "closed"
       THEN /\ task' = [task EXCEPT ![s].accept = "done"]
            /\ pf' = [pf EXCEPT ![s].wg = @ - 1]
       ELSE /\ task' = [task EXCEPT ![s].accept = "accept"]
            /\ UNCHANGED pf
    /\ UNCHANGED <<variant, sc, m, det, remoteHost, wire, req, caller, calls, conns, proc, bound, crashed, hist>>

\* pf.listener.Accept() returns a connection from the backlog.
Accept_Conn(s) ==
    /\ Alive
    /\ task[s].accept = "accept"
    /\ pf[s].listener = "open"
    /\ \E c \in Pending(s) :
         /\ conns' = [conns EXCEPT ![c].st = "accepted"]
         /\ task' = [task EXCEPT ![s].accept = "spawn", ![s].held = c]
    /\ UNCHANGED <<variant, sc, m, det, remoteHost, wire, req, caller, calls, pf, proc, bound, crashed, hist>>

\* The one-second deadline passes with no connection: continue.
Accept_Timeout(s) ==
    /\ Alive
    /\ task[s].accept = "accept"
    /\ pf[s].listener = "open"
    /\ Pending(s) = {}
    /\ task' = [task EXCEPT ![s].accept = "select"]
    /\ UNCHANGED <<variant, sc, m, det, remoteHost, wire, req, caller, calls, pf, conns, proc, bound, crashed, hist>>

\* Accept fails with an error that is no timeout: always on a closed listener,
\* and sporadically on an open one.
Accept_Error(s) ==
    /\ Alive
    /\ task[s].accept = "accept"
    /\ task' = [task EXCEPT ![s].accept = "errcheck"]
    /\ UNCHANGED <<variant, sc, m, det, remoteHost, wire, req, caller, calls, pf, conns, proc, bound, crashed, hist>>

\* An accept loop whose error path always continues, without looking at the
\* stop channel.
Accept_ErrCheckMutant(s) ==
    /\ Alive
    /\ task[s].accept = "errcheck"
    /\ task' = [task EXCEPT ![s].accept = "select"]
    /\ UNCHANGED <<variant, sc, m, det, remoteHost, wire, req, caller, calls, pf, conns,
                   proc, bound, crashed, hist>>

\* select { case <-pf.stopChan: return; default: continue }
Accept_ErrCheck(s) ==
    /\ Alive
    /\ task[s].accept = "errcheck"
    /\ IF pf[s].stopChan = "closed"
       THEN /\ task' = [task EXCEPT ![s].accept = "done"]
            /\ pf' = [pf EXCEPT ![s].wg = @ - 1]
       ELSE /\ task' = [task EXCEPT ![s].accept = "select"]
            /\ UNCHANGED pf
    /\ UNCHANGED <<variant, sc, m, det, remoteHost, wire, req, caller, calls, conns, proc, bound, crashed, hist>>

\* pf.wg.Add(1); go pf.handleConnection(conn)
Accept_GoMutant(s) ==
    /\ Alive
    /\ task[s].accept = "spawn"
    /\ conns' = [conns EXCEPT ![task[s].held].st = "dial"]
    /\ task' = [task EXCEPT ![s].accept = "select", ![s].held = 0]
    /\ UNCHANGED <<variant, sc, m, det, remoteHost, wire, req, caller, calls, pf, proc, bound, crashed, hist>>

Accept_Go(s) ==
    /\ Alive
    /\ task[s].accept = "spawn"
    /\ pf' = [pf EXCEPT ![s].wg = @ + 1]
    /\ conns' = [conns EXCEPT ![task[s].held].st = "dial"]
    /\ task' = [task EXCEPT ![s].accept = "select", ![s].held = 0]
    /\ UNCHANGED <<variant, sc, m, det, remoteHost, wire, req, caller, calls, proc, bound, crashed, hist>>

\* ---------------------------------------------------------------------------
\* PortForwarder.handleConnection (listener transport)
\* ---------------------------------------------------------------------------

\* remoteConn, err := pf.sshClient.Dial(...); on error return (the deferred
\* localConn.Close() and pf.wg.Done() run); else start the two io.Copy tasks.
Handle_Dial(c) ==
    /\ Alive
    /\ conns[c].st = "dial"
    /\ \E ok \in BOOLEAN :
         conns' = [conns EXCEPT ![c] =
                     IF ok
                     THEN [@ EXCEPT !.st = "copy", !.remote = "open",
                                    !.l2r = "run", !.r2l = "run"]
                     ELSE [@ EXCEPT !.st = "dial_failed"]]
    /\ UNCHANGED <<variant, sc, m, det, remoteHost, wire, req, caller, calls, pf, task, proc, bound, crashed, hist>>

\* io.Copy(remoteConn, localConn) ends: its read of the local connection
\* returned EOF, after every byte the client had sent.
Copy_LocalToRemote(c) ==
    /\ Alive
    /\ conns[c].st = "copy"
    /\ conns[c].l2r = "run"
    /\ conns[c].clientClosed \/ conns[c].local = "closed"
    /\ wire[c].l2r.read = Len(wire[c].l2r.sent) /\ wire[c].l2r.buf = <<>>
    /\ conns' = [conns EXCEPT ![c].l2r = "done"]
    /\ UNCHANGED <<variant, sc, m, det, remoteHost, wire, req, caller, calls, pf, task, proc, bound, crashed, hist>>

\* io.Copy(localConn, remoteConn) ends: its read of the remote connection
\* returned EOF, after every byte the remote service had sent.
Copy_RemoteToLocal(c) ==
    /\ Alive
    /\ conns[c].st = "copy"
    /\ conns[c].r2l = "run"
    /\ conns[c].remoteClosed \/ conns[c].remote = "closed"
    /\ wire[c].r2l.read = Len(wire[c].r2l.sent) /\ wire[c].r2l.buf = <<>>
    /\ conns' = [conns EXCEPT ![c].r2l = "done"]
    /\ UNCHANGED <<variant, sc, m, det, remoteHost, wire, req, caller, calls, pf, task, proc, bound, crashed, hist>>

\* An io.Copy ends on a write error: the peer it writes to has closed and the
\* peer it reads from sent more bytes.
Copy_WriteError(c) ==
    /\ Alive
    /\ conns[c].st = "copy"
    /\ \/ /\ conns[c].l2r = "run"
          /\ conns[c].remoteClosed /\ ~conns[c].clientClosed
          /\ conns' = [conns EXCEPT ![c].l2r = "done"]
       \/ /\ conns[c].r2l = "run"
          /\ conns[c].clientClosed /\ ~conns[c].remoteClosed
          /\ conns' = [conns EXCEPT ![c].r2l = "done"]
    /\ UNCHANGED <<variant, sc, m, det, remoteHost, wire, req, caller, calls, pf, task, proc, bound, crashed, hist>>

\* A handler whose return after a failed dial leaves the local connection open.
Handle_CloseMutant(c) ==
    /\ Alive
    /\ \/ conns[c].st = "dial_failed"
       \/ conns[c].st = "copy" /\ conns[c].l2r = "done" /\ conns[c].r2l = "done"
    /\ conns' = [conns EXCEPT
                   ![c].st = "exiting",
                   ![c].local = IF conns[c].st = "dial_failed" THEN @ ELSE "closed",
                   ![c].remote = IF @ = "open" THEN "closed" ELSE @,
                   ![c].clientClosed = TRUE,
                   ![c].remoteClosed = (conns[c].remote = "open")]
    /\ UNCHANGED <<variant, sc, m, det, remoteHost, wire, req, caller, calls, pf, task, proc, bound, crashed, hist>>

\* The handler returns, after a failed dial or when its wg.Wait() has seen both
\* copy tasks end: the deferred remoteConn.Close() and localConn.Close() run.
\* The peers of a closed connection have lost it too.
Handle_Close(c) ==
    /\ Alive
    /\ \/ conns[c].st = "dial_failed"
       \/ conns[c].st = "copy" /\ conns[c].l2r = "done" /\ conns[c].r2l = "done"
    /\ conns' = [conns EXCEPT
                   ![c].st = "exiting", ![c].local = "closed",
                   ![c].remote = IF @ = "open" THEN "closed" ELSE @,
                   ![c].clientClosed = TRUE,
                   ![c].remoteClosed = (conns[c].remote = "open")]
    /\ UNCHANGED <<variant, sc, m, det, remoteHost, wire, req, caller, calls, pf, task, proc, bound, crashed, hist>>

\* The deferred pf.wg.Done(), which runs last.
Handle_Done(c) ==
    /\ Alive
    /\ conns[c].st = "exiting"
    /\ conns' = [conns EXCEPT ![c].st = "done"]
    /\ pf' = [pf EXCEPT ![conns[c].s].wg = @ - 1]
    /\ UNCHANGED <<variant, sc, m, det, remoteHost, wire, req, caller, calls, task, proc, bound, crashed, hist>>

\* ---------------------------------------------------------------------------
\* PortForwarder.monitorSSH (process transport)
\* ---------------------------------------------------------------------------

\* select { case <-pf.stopChan: return; default: pf.sshCmd.Wait() }
Monitor_Select(s) ==
    /\ Alive
    /\ task[s].monitor = "select"
    /\ IF pf[s].stopChan = "closed"
       THEN /\ task' = [task EXCEPT ![s].monitor = "done"]
            /\ pf' = [pf EXCEPT ![s].wg = @ - 1]
       ELSE /\ task' = [task EXCEPT ![s].monitor = "wait"]
            /\ UNCHANGED pf
    /\ UNCHANGED <<variant, sc, m, det, remoteHost, wire, req, caller, calls, conns, proc, bound, crashed, hist>>

\* pf.sshCmd.Wait() returns when the process has ended; then pf.wg.Done().
Monitor_Wait(s) ==
    /\ Alive
    /\ task[s].monitor = "wait"
    /\ ~ProcAlive(s)
    /\ task' = [task EXCEPT ![s].monitor = "done"]
    /\ pf' = [pf EXCEPT ![s].wg = @ - 1]
    /\ UNCHANGED <<variant, sc, m, det, remoteHost, wire, req, caller, calls, conns, proc, bound, crashed, hist>>

\* ---------------------------------------------------------------------------
\* The world around the session: local clients, the remote service, the ssh
\* process, other programs that bind local ports
\* ---------------------------------------------------------------------------

\* A local client connects to the session's listener.
ClientConnect(s) ==
    /\ Alive
    /\ pf[s].listener = "open"
    /\ FreeConns # {}
    /\ LET c == CHOOSE x \in FreeConns : \A y \in FreeConns : x <= y IN
         conns' = [conns EXCEPT ![c] = [NoConn EXCEPT !.st = "pending", !.s = s,
                                                     !.local = "open"]]
    /\ UNCHANGED <<variant, sc, m, det, remoteHost, wire, req, caller, calls, pf, task, proc, bound, crashed, hist>>

\* The local client closes its end of a connection.
ClientClose(c) ==
    /\ Alive
    /\ conns[c].st = "copy"
    /\ ~conns[c].clientClosed
    /\ conns' = [conns EXCEPT ![c].clientClosed = TRUE]
    /\ UNCHANGED <<variant, sc, m, det, remoteHost, wire, req, caller, calls, pf, task, proc, bound, crashed, hist>>

\* The remote service closes its end of a bridged connection.
RemoteClose(c) ==
    /\ Alive
    /\ conns[c].st = "copy"
    /\ ~conns[c].remoteClosed
    /\ conns' = [conns EXCEPT ![c].remoteClosed = TRUE]
    /\ UNCHANGED <<variant, sc, m, det, remoteHost, wire, req, caller, calls, pf, task, proc, bound, crashed, hist>>

\* ssh has authenticated and binds the -L port; with ExitOnForwardFailure=yes it
\* exits when the bind fails.
Ssh_Forward(s) ==
    /\ Alive
    /\ proc[s] = "connecting"
    /\ IF bound[pf[s].localPort] = Free
       THEN /\ proc' = [proc EXCEPT ![s] = "forwarding"]
            /\ bound' = [bound EXCEPT ![pf[s].localPort] = <<"ssh", s>>]
            /\ UNCHANGED hist
       ELSE /\ proc' = [proc EXCEPT ![s] = "bind_failed"]
            /\ hist' = [hist EXCEPT ![s].liveProcs = @ - 1]
            /\ UNCHANGED bound
    /\ UNCHANGED <<variant, sc, m, det, remoteHost, wire, req, caller, calls, pf, task, conns, crashed>>

\* ssh cannot reach or authenticate to the host and exits.
Ssh_ConnectFail(s) ==
    /\ Alive
    /\ proc[s] = "connecting"
    /\ proc' = [proc EXCEPT ![s] = "connect_failed"]
    /\ hist' = [hist EXCEPT ![s].liveProcs = @ - 1]
    /\ UNCHANGED <<variant, sc, m, det, remoteHost, wire, req, caller, calls, pf, task, conns, bound, crashed>>

\* An established ssh tunnel ends on its own (connection lost).
Ssh_Exit(s) ==
    /\ Alive
    /\ proc[s] = "forwarding"
    /\ proc' = [proc EXCEPT ![s] = "exited"]
    /\ bound' = Release(<<"ssh", s>>)
    /\ hist' = [hist EXCEPT ![s].liveProcs = @ - 1]
    /\ UNCHANGED <<variant, sc, m, det, remoteHost, wire, req, caller, calls, pf, task, conns, crashed>>

\* Local ports this program binds or may bind (a request may end up on any
\* port); what other programs do with the remaining ports cannot be observed.
Wanted ==
    IF \E t \in Callers : req[t].remote # 0
    THEN Ports
    ELSE {pf[s].localPort : s \in {x \in Sessions : pf[x].made}}

\* Another program binds, or releases, a local port.
OtherBind(p) ==
    /\ Alive
    /\ p \in Wanted
    /\ bound[p] = Free
    /\ bound' = [bound EXCEPT ![p] = Other]
    /\ UNCHANGED <<variant, sc, m, det, remoteHost, wire, req, caller, calls, pf, task, conns, proc, crashed, hist>>

OtherRelease(p) ==
    /\ Alive
    /\ bound[p] = Other
    /\ bound' = [bound EXCEPT ![p] = Free]
    /\ UNCHANGED <<variant, sc, m, det, remoteHost, wire, req, caller, calls, pf, task, conns, proc, crashed, hist>>

\* ---------------------------------------------------------------------------
\* Callers of the session's API
\* ---------------------------------------------------------------------------

Call_Start(t) ==
    /\ Alive
    /\ caller[t].pc \in {"idle", "returned"}
    /\ calls < MaxCalls
    /\ pf[SessOf(t)].made
    /\ calls' = calls + 1
    /\ caller' = [caller EXCEPT ![t].pc = "start_lock", ![t].ret = "none"]
    /\ UNCHANGED <<variant, sc, m, det, remoteHost, wire, req, pf, task, conns, proc, bound, crashed, hist>>

Call_Stop(t) ==
    /\ Alive
    /\ caller[t].pc \in {"idle", "returned"}
    /\ calls < MaxCalls
    /\ pf[SessOf(t)].made
    /\ calls' = calls + 1
    /\ caller' = [caller EXCEPT ![t].pc = "stop_lock", ![t].ret = "none"]
    /\ UNCHANGED <<variant, sc, m, det, remoteHost, wire, req, pf, task, conns, proc, bound, crashed, hist>>

\* ---------------------------------------------------------------------------
\* Specification of one session driven through its API
\* ---------------------------------------------------------------------------

\* forwarder := NewPortForwarder(host, 1, 1), shared by all callers.
Init ==
    /\ variant \in Variants
    /\ caller = [t \in Callers |-> IdleCaller(1)]
    /\ calls = 0
    /\ pf = [s \in Sessions |->
               IF s = 1
               THEN NewPortForwarder(IF variant = "listener" THEN "connected" ELSE "nil",
                                     1, 1)
               ELSE NoForwarder]
    /\ req = [t \in Callers |-> NoRequest]
    /\ task = [s \in Sessions |-> NoTask]
    /\ conns = [c \in 1..MaxConns |-> NoConn]
    /\ proc = [s \in Sessions |-> "none"]
    /\ bound = [p \in Ports |-> Free]
    /\ crashed = FALSE
    /\ hist = [s \in Sessions |-> NoHist]
    /\ m = NewModel(0)
    /\ det = [d \in Detects |-> NoDetect]
    /\ remoteHost = NoRemoteHost
    /\ wire = [c \in 1..MaxConns |-> NoWire]
    /\ sc = NoConfig

StartStep(t) ==
    \/ Start_Lock(t) \/ Start_Check(t) \/ Start_Listen(t) \/ Start_Spawn(t)
    \/ Start_Launch(t)

StopStep(t) ==
    \/ Stop_Lock(t) \/ Stop_Check(t) \/ Stop_Signal(t) \/ Stop_CloseListener(t)
    \/ Stop_Kill(t) \/ Stop_Wait(t)

AcceptStep(s) ==
    \/ Accept_Select(s) \/ Accept_Conn(s) \/ Accept_Timeout(s) \/ Accept_Error(s)
    \/ Accept_ErrCheck(s) \/ Accept_Go(s)

HandleStep(c) ==
    \/ Handle_Dial(c) \/ Copy_LocalToRemote(c) \/ Copy_RemoteToLocal(c)
    \/ Handle_Close(c) \/ Handle_Done(c)

MonitorStep(s) == Monitor_Select(s) \/ Monitor_Wait(s)

\* Steps of the program's own goroutines.
ProgramStep ==
    \/ \E t \in Callers : StartStep(t) \/ StopStep(t)
    \/ \E s \in Sessions : AcceptStep(s) \/ MonitorStep(s)
    \/ \E c \in 1..MaxConns : HandleStep(c)

\* Steps of everything else.
WorldStep ==
    \/ \E s \in Sessions : ClientConnect(s) \/ Ssh_Forward(s) \/ Ssh_ConnectFail(s) \/ Ssh_Exit(s)
    \/ \E c \in 1..MaxConns : ClientClose(c) \/ RemoteClose(c) \/ Copy_WriteError(c)
    \/ \E p \in Ports : OtherBind(p) \/ OtherRelease(p)

ApiStep == \E t \in Callers : Call_Start(t) \/ Call_Stop(t)

Next == ProgramStep \/ WorldStep \/ ApiStep

Spec == Init /\ [][Next]_vars

\* ---------------------------------------------------------------------------
\* StartPortForwarding: the StartForward request of goroutine t, which creates
\* session t
\* ---------------------------------------------------------------------------

\* Text is a sequence of one-character strings; the output of a remote command
\* is the sequence of its lines.
DigitChars == <<"0", "1", "2", "3", "4", "5", "6", "7", "8", "9">>

IsDigit(ch) == \E i \in DOMAIN DigitChars : DigitChars[i] = ch

DigitVal(ch) == (CHOOSE i \in DOMAIN DigitChars : DigitChars[i] = ch) - 1

\* strings.TrimSpace
RECURSIVE TrimLeft(_)
TrimLeft(line) ==
    IF line # <<>> /\ Head(line) = " " THEN TrimLeft(Tail(line)) ELSE line

RECURSIVE TrimRight(_)
TrimRight(line) ==
    IF line # <<>> /\ line[Len(line)] = " "
    THEN TrimRight(SubSeq(line, 1, Len(line) - 1))
    ELSE line

TrimSpace(line) == TrimRight(TrimLeft(line))

\* The value of a sequence of decimal digits.
RECURSIVE DigitsValue(_)
DigitsValue(ds) ==
    IF ds = <<>> THEN 0
    ELSE 10 * DigitsValue(SubSeq(ds, 1, Len(ds) - 1)) + DigitVal(ds[Len(ds)])

\* strconv.Atoi: an optional sign followed by one or more decimal digits.
Atoi(text) ==
    LET signed == text # <<>> /\ Head(text) \in {"+", "-"}
        ds == IF signed THEN Tail(text) ELSE text
    IN  IF ds = <<>> \/ \E i \in DOMAIN ds : ~IsDigit(ds[i])
        THEN [err |-> TRUE, val |-> 0]
        ELSE [err |-> FALSE,
              val |-> IF signed /\ Head(text) = "-"
                      THEN 0 - DigitsValue(ds) ELSE DigitsValue(ds)]

\* StartPortForwarding(host, remotePort) begins in goroutine t: its first
\* statements are local, up to the first probe of a local port.
ForwardIssued(t, remotePort) ==
    /\ req' = [req EXCEPT ![t].remote = remotePort]
    /\ Goto(t, IF variant = "process" THEN "probe_listen" ELSE "any_listen")

\* A StartManualPortForwarding whose range check lets 0 through.
ManualIssuedMutant(t, portStr) ==
    LET port == Atoi(portStr) IN
    IF port.err \/ port.val < 0 \/ port.val > 65535
    THEN /\ req' = [req EXCEPT ![t].msg = "Error", ![t].manual = TRUE,
                               ![t].text = portStr]
         /\ Goto(t, "done")
    ELSE /\ req' = [req EXCEPT ![t].remote = port.val, ![t].manual = TRUE,
                               ![t].text = portStr]
         /\ Goto(t, IF variant = "process" THEN "probe_listen" ELSE "any_listen")

\* StartManualPortForwarding(host, portStr): Atoi and the range check come
\* first; a text that is no port ends the command in an ErrorMsg.
ManualIssued(t, portStr) ==
    LET port == Atoi(portStr) IN
    IF port.err \/ port.val <= 0 \/ port.val > 65535
    THEN /\ req' = [req EXCEPT ![t].msg = "Error", ![t].manual = TRUE,
                               ![t].text = portStr]
         /\ Goto(t, "done")
    ELSE /\ req' = [req EXCEPT ![t].remote = port.val, ![t].manual = TRUE,
                               ![t].text = portStr]
         /\ Goto(t, IF variant = "process" THEN "probe_listen" ELSE "any_listen")

\* Texts handed to StartManualPortForwarding: ports of the model, with and
\* without a sign, and texts that are no port.
ManualTexts ==
    {<<"1">>, <<"+", "2">>, <<"0">>, <<"-", "1">>, <<"a", "b", "c">>,
     <<"7", "0", "0", "0", "0">>, <<"6", "5", "5", "3", "6">>, <<" ", "1">>, <<>>}

\* The manual command starts with a text.
StartManualPortForwarding_Begin(t) ==
    /\ Alive
    /\ caller[t].pc = "idle"
    /\ req[t] = NoRequest
    /\ \E portStr \in ManualTexts : ManualIssued(t, portStr)
    /\ UNCHANGED <<variant, sc, m, det, remoteHost, wire, calls, pf, task, conns, proc, bound, crashed, hist>>

\* The command starts for a remote port.  The process transport first asks
\* findPreferredLocalPort, the listener transport findAvailablePort.
StartPortForwarding_Begin(t) ==
    /\ Alive
    /\ caller[t].pc = "idle"
    /\ req[t].remote = 0
    /\ \E rp \in Ports : req' = [req EXCEPT ![t].remote = rp]
    /\ Goto(t, IF variant = "process" THEN "probe_listen" ELSE "any_listen")
    /\ UNCHANGED <<variant, sc, m, det, remoteHost, wire, calls, pf, task, conns, proc, bound, crashed, hist>>

\* isPortAvailable: net.Listen on the remote port's number; on an error
\* findPreferredLocalPort goes on to findAvailablePort.
isPortAvailable_Listen(t) ==
    /\ Alive
    /\ caller[t].pc = "probe_listen"
    /\ IF bound[req[t].remote] = Free
       THEN /\ bound' = [bound EXCEPT ![req[t].remote] = <<"probe", t>>]
            /\ Goto(t, "probe_close")
       ELSE /\ Goto(t, "any_listen")
            /\ UNCHANGED bound
    /\ UNCHANGED <<variant, sc, m, det, remoteHost, wire, req, calls, pf, task, conns, proc, crashed, hist>>

\* isPortAvailable: listener.Close(); return true, and findPreferredLocalPort
\* returns (remotePort, true).
isPortAvailable_Close(t) ==
    /\ Alive
    /\ caller[t].pc = "probe_close"
    /\ bound' = Release(<<"probe", t>>)
    /\ req' = [req EXCEPT ![t].local = req[t].remote, ![t].same = TRUE]
    /\ Goto(t, "new")
    /\ UNCHANGED <<variant, sc, m, det, remoteHost, wire, calls, pf, task, conns, proc, crashed, hist>>

\* findAvailablePort: net.Listen on port 0: the OS assigns a free port, or the
\* call fails and the request ends in an ErrorMsg.
findAvailablePort_Listen(t) ==
    /\ Alive
    /\ caller[t].pc = "any_listen"
    /\ IF \E q \in Ports : bound[q] = Free
       THEN /\ \E q \in {x \in Ports : bound[x] = Free} :
                 /\ bound' = [bound EXCEPT ![q] = <<"probe", t>>]
                 /\ req' = [req EXCEPT ![t].local = q]
            /\ Goto(t, "any_close")
       ELSE /\ req' = [req EXCEPT ![t].msg = "Error"]
            /\ Goto(t, "done")
            /\ UNCHANGED bound
    /\ UNCHANGED <<variant, sc, m, det, remoteHost, wire, calls, pf, task, conns, proc, crashed, hist>>

\* A findAvailablePort that returns without closing its listener.
findAvailablePort_CloseMutant(t) ==
    /\ Alive
    /\ caller[t].pc = "any_close"
    /\ Goto(t, IF variant = "process" THEN "new" ELSE "dial")
    /\ UNCHANGED <<variant, sc, m, det, remoteHost, wire, req, calls, pf, task, conns, proc, bound, crashed, hist>>

\* findAvailablePort: the deferred listener.Close(); return addr.Port.
findAvailablePort_Close(t) ==
    /\ Alive
    /\ caller[t].pc = "any_close"
    /\ bound' = Release(<<"probe", t>>)
    /\ Goto(t, IF variant = "process" THEN "new" ELSE "dial")
    /\ UNCHANGED <<variant, sc, m, det, remoteHost, wire, req, calls, pf, task, conns, proc, crashed, hist>>

\* Listener transport: createSSHClient(host); a failure ends the request in an
\* ErrorMsg.
createSSHClient(t) ==
    /\ Alive
    /\ caller[t].pc = "dial"
    /\ \E ok \in BOOLEAN :
         IF ok
         THEN /\ Goto(t, "new")
              /\ UNCHANGED req
         ELSE /\ Goto(t, "done")
              /\ req' = [req EXCEPT ![t].msg = "Error"]
    /\ UNCHANGED <<variant, sc, m, det, remoteHost, wire, calls, pf, task, conns, proc, bound, crashed, hist>>

\* forwarder := NewPortForwarder(..., localPort, remotePort); forwarder.Start()
StartPortForwarding_Start(t) ==
    /\ Alive
    /\ caller[t].pc = "new"
    /\ pf' = [pf EXCEPT ![t] =
                NewPortForwarder(IF variant = "listener" THEN "connected" ELSE "nil",
                                 req[t].local, req[t].remote)]
    /\ Goto(t, "start_lock")
    /\ UNCHANGED <<variant, sc, m, det, remoteHost, wire, req, calls, task, conns, proc, bound, crashed, hist>>

\* Start returned: an error gives an ErrorMsg (the listener transport closes
\* its ssh client first), nil gives ForwardingStartedMsg{localPort, remotePort}.
StartPortForwarding_Result(t) ==
    /\ Alive
    /\ caller[t].pc = "returned"
    /\ req[t].remote # 0
    /\ IF caller[t].ret = "started"
       THEN /\ req' = [req EXCEPT ![t].msg = "ForwardingStarted"]
            /\ UNCHANGED pf
       ELSE /\ req' = [req EXCEPT ![t].msg = "Error"]
            /\ pf' = [pf EXCEPT ![t].sshClient =
                        IF @ = "connected" THEN "closed" ELSE @]
    /\ Goto(t, "done")
    /\ UNCHANGED <<variant, sc, m, det, remoteHost, wire, calls, task, conns, proc, bound, crashed, hist>>

\* ---------------------------------------------------------------------------
\* Specification of the StartForward requests: every goroutine runs one
\* request on a session of its own; no Stop is ever called on those sessions
\* ---------------------------------------------------------------------------

InitFwd ==
    /\ variant \in Variants
    /\ caller = [t \in Callers |-> IdleCaller(t)]
    /\ calls = 0
    /\ pf = [s \in Sessions |-> NoForwarder]
    /\ req = [t \in Callers |-> NoRequest]
    /\ task = [s \in Sessions |-> NoTask]
    /\ conns = [c \in 1..MaxConns |-> NoConn]
    /\ proc = [s \in Sessions |-> "none"]
    /\ bound = [p \in Ports |-> Free]
    /\ crashed = FALSE
    /\ hist = [s \in Sessions |-> NoHist]
    /\ m = NewModel(0)
    /\ det = [d \in Detects |-> NoDetect]
    /\ remoteHost = NoRemoteHost
    /\ wire = [c \in 1..MaxConns |-> NoWire]
    /\ sc = NoConfig

RequestStep(t) ==
    \/ StartPortForwarding_Begin(t)
    \/ isPortAvailable_Listen(t) \/ isPortAvailable_Close(t)
    \/ findAvailablePort_Listen(t) \/ findAvailablePort_Close(t)
    \/ createSSHClient(t)
    \/ StartPortForwarding_Start(t) \/ StartPortForwarding_Result(t)

NextFwd ==
    \/ \E t \in Callers : RequestStep(t) \/ StartStep(t)
    \/ \E s \in Sessions : AcceptStep(s) \/ MonitorStep(s)
    \/ \E c \in 1..MaxConns : HandleStep(c)
    \/ WorldStep

SpecFwd == InitFwd /\ [][NextFwd]_vars

\* Scheduling: the Go runtime keeps running every goroutine that can take a
\* step.  Nothing obliges a client, the remote service, the ssh process or
\* another program to act, nor a caller to call again.
Fairness ==
    /\ \A t \in Callers : WF_vars(StartStep(t) \/ StopStep(t))
    /\ \A s \in Sessions : WF_vars(AcceptStep(s)) /\ WF_vars(MonitorStep(s))
    /\ \A c \in 1..MaxConns : WF_vars(HandleStep(c))

FairSpec == Spec /\ Fairness

\* ---------------------------------------------------------------------------
\* DetectPorts: the discovery command.  The build with the listener transport
\* talks to the host through an ssh client of its own
\* (src/unnamed/part_000:27-151), the build with the process transport runs
\* the ssh program once per remote command (src/unnamed/part_000:225-314).
\* ---------------------------------------------------------------------------

\* The loop of detectRemotePorts over the lines of the output: blank lines are
\* skipped, a line is kept when Atoi succeeds and 0 < port < 65536.
RECURSIVE parseLines(_)
parseLines(lines) ==
    IF lines = <<>> THEN <<>>
    ELSE LET line == TrimSpace(Head(lines))
             port == Atoi(line)
         IN  IF line # <<>> /\ ~port.err /\ port.val > 0 /\ port.val < 65536
             THEN <<port.val>> \o parseLines(Tail(lines))
             ELSE parseLines(Tail(lines))

\* removeDuplicates keeps the first occurrence of every item.
RECURSIVE removeDuplicatesFrom(_, _)
removeDuplicatesFrom(slice, keys) ==
    IF slice = <<>> THEN <<>>
    ELSE IF Head(slice) \in keys
         THEN removeDuplicatesFrom(Tail(slice), keys)
         ELSE <<Head(slice)>> \o removeDuplicatesFrom(Tail(slice), keys \cup {Head(slice)})

removeDuplicatesMutant(slice) == slice
removeDuplicates(slice) == removeDuplicatesFrom(slice, {})

\* sort.Ints
RECURSIVE Insert(_, _)
Insert(x, sorted) ==
    IF sorted = <<>> THEN <<x>>
    ELSE IF x <= Head(sorted) THEN <<x>> \o sorted
         ELSE <<Head(sorted)>> \o Insert(x, Tail(sorted))

RECURSIVE SortInts(_)
SortInts(s) == IF s = <<>> THEN <<>> ELSE Insert(Head(s), SortInts(Tail(s)))

\* detectRemotePorts, from the output of the strategy that succeeded.
parsePorts(output) == SortInts(removeDuplicates(parseLines(output)))

\* detectCommonPorts probes these ports, in this order.
commonPorts == <<80, 443, 3000, 3001, 4000, 5000, 8000, 8080, 8443, 9000>>

\* The enumeration strategies: netstat, ss, lsof.
commands == <<"netstat", "ss", "lsof">>

\* Lines a remote command may print, and the outputs made of them.
Lines ==
    {<<"1">>, <<"2">>, <<" ", "2">>, <<"0">>, <<"-", "1">>, <<"a", "b">>,
     <<"6", "5", "5", "3", "6">>, <<>>}

Outputs == UNION {[1..n -> Lines] : n \in 0..MaxLines}

\* What the ports of the probe list can be on the remote host.
ListeningSets == {{}, {443}, {80, 8080, 9000}, {22, 3000}}

\* Remote hosts: whether ssh can reach the host and open sessions on it, what
\* its tools print, what listens on it.
RemoteHosts ==
    [reach : {"no", "nosession", "yes"}, output : Outputs, listening : ListeningSets]

\* The command, as issued for host h.
DetectIssued(h) ==
    [NoDetect EXCEPT !.pc = IF variant = "listener" THEN "dial" ELSE "run",
                     !.host = h, !.k = 1]

\* A DetectPorts that reports a run without ports as an error.
DetectReturnMutant(d, ports) ==
    [det[d] EXCEPT !.pc = "done",
                   !.msg = IF ports = <<>> THEN "Error" ELSE "PortsDetected",
                   !.ports = ports]

\* return PortsDetectedMsg{Ports: ports}
DetectReturn(d, ports) ==
    [det[d] EXCEPT !.pc = "done", !.msg = "PortsDetected", !.ports = ports]

\* The loop over the commands goes on after command k left (err, output); after
\* the last command `if err != nil || len(output) == 0` sends the run to
\* detectCommonPorts, and the output is parsed otherwise.
DetectContinue(d, err, output) ==
    IF det[d].k < Len(commands)
    THEN [det[d] EXCEPT !.pc = "run", !.k = @ + 1, !.err = err, !.output = output]
    ELSE IF err \/ output = <<>>
         THEN [det[d] EXCEPT !.pc = "probe", !.i = 1, !.err = err, !.output = output]
         ELSE [DetectReturn(d, parsePorts(output)) EXCEPT !.err = err, !.output = output]

\* Listener-transport build: ssh.Dial with its 5 s timeout, then
\* client.NewSession(); an error of either returns an error from
\* detectRemotePorts, which DetectPorts turns into PortsDetectedMsg{[]}.
Detect_Dial(d) ==
    /\ Alive
    /\ det[d].pc = "dial"
    /\ det' = [det EXCEPT ![d] =
                 IF remoteHost.reach = "yes"
                 THEN [@ EXCEPT !.pc = "run"]
                 ELSE DetectReturn(d, <<>>)]
    /\ UNCHANGED <<variant, sc, m, remoteHost, wire, req, caller, calls, pf, task, conns,
                   proc, bound, crashed, hist>>

\* Command k is started.  Process build: exec of ssh with ConnectTimeout=10 and
\* BatchMode=yes, which fails when the host cannot be reached or refuses the
\* session.  Listener build: client.NewSession(), whose error is a `continue`.
Detect_Run(d) ==
    /\ Alive
    /\ det[d].pc = "run"
    /\ det' = [det EXCEPT ![d] =
                 IF remoteHost.reach = "yes"
                 THEN [@ EXCEPT !.pc = "exec"]
                 ELSE DetectContinue(d, TRUE, <<>>)]
    /\ UNCHANGED <<variant, sc, m, remoteHost, wire, req, caller, calls, pf, task, conns,
                   proc, bound, crashed, hist>>

\* A loop over the commands without its `break`: the next command runs although
\* the last one gave a listing.
Detect_OutputMutant(d) ==
    /\ Alive
    /\ det[d].pc = "exec"
    /\ \E outcome \in {"fail", "empty", "output"} :
         LET err == outcome = "fail"
             output == IF outcome = "output" THEN remoteHost.output ELSE <<>>
             ran == Append(det[d].ran, det[d].k)
         IN  det' = [det EXCEPT ![d] = [DetectContinue(d, err, output) EXCEPT !.ran = ran]]
    /\ UNCHANGED <<variant, sc, m, remoteHost, wire, req, caller, calls, pf, task, conns,
                   proc, bound, crashed, hist>>

\* A detectRemotePorts that takes a listing without a port for a failed
\* listing and probes the common ports.
Detect_OutputProbeMutant(d) ==
    /\ Alive
    /\ det[d].pc = "exec"
    /\ \E outcome \in {"fail", "empty", "output"} :
         LET err == outcome = "fail"
             output == IF outcome = "output" THEN remoteHost.output ELSE <<>>
             ran == Append(det[d].ran, det[d].k)
         IN  det' = [det EXCEPT ![d] =
                       IF ~err /\ output # <<>>
                       THEN IF parsePorts(output) # <<>>
                            THEN [DetectReturn(d, parsePorts(output))
                                    EXCEPT !.err = err, !.output = output, !.ran = ran]
                            ELSE [@ EXCEPT !.pc = "probe", !.i = 1, !.err = err,
                                           !.output = output, !.ran = ran]
                       ELSE [DetectContinue(d, err, output) EXCEPT !.ran = ran]]
    /\ UNCHANGED <<variant, sc, m, remoteHost, wire, req, caller, calls, pf, task, conns,
                   proc, bound, crashed, hist>>

\* Output() of command k returns, which it does when the remote command has
\* ended: with an error, with no output, or with the listing.  On success with
\* a non-empty output the loop breaks and the output is parsed.
Detect_Output(d) ==
    /\ Alive
    /\ det[d].pc = "exec"
    /\ \E outcome \in {"fail", "empty", "output"} :
         LET err == outcome = "fail"
             output == IF outcome = "output" THEN remoteHost.output ELSE <<>>
             ran == Append(det[d].ran, det[d].k)
         IN  det' = [det EXCEPT ![d] =
                       IF ~err /\ output # <<>>
                       THEN [DetectReturn(d, parsePorts(output))
                               EXCEPT !.err = err, !.output = output, !.ran = ran]
                       ELSE [DetectContinue(d, err, output) EXCEPT !.ran = ran]]
    /\ UNCHANGED <<variant, sc, m, remoteHost, wire, req, caller, calls, pf, task, conns,
                   proc, bound, crashed, hist>>

\* A detectCommonPorts that appends every port of its list, open or not.
Detect_ProbeMutant(d) ==
    /\ Alive
    /\ det[d].pc = "probe"
    /\ LET port == commonPorts[det[d].i]
           openPorts == Append(det[d].openPorts, port)
           probed == Append(det[d].probed, port)
           shell == IF variant = "process" THEN Append(det[d].shell, port)
                    ELSE det[d].shell
       IN  det' = [det EXCEPT ![d] =
                     IF det[d].i < Len(commonPorts)
                     THEN [@ EXCEPT !.i = @ + 1, !.openPorts = openPorts,
                                    !.probed = probed, !.shell = shell]
                     ELSE [DetectReturn(d, openPorts)
                             EXCEPT !.openPorts = openPorts, !.probed = probed,
                                    !.shell = shell]]
    /\ UNCHANGED <<variant, sc, m, remoteHost, wire, req, caller, calls, pf, task, conns,
                   proc, bound, crashed, hist>>

\* detectCommonPorts probes the i-th port of its list: the port is appended
\* when the probe succeeds.  The process build probes by running the command
\* "timeout 1 bash -c '</dev/tcp/localhost/port' ..." in the remote shell through
\* ssh and reading its answer "open" (shell records these commands); the
\* listener build probes with client.Dial and closes the connection.  After the
\* last port the list is returned.
Detect_Probe(d) ==
    /\ Alive
    /\ det[d].pc = "probe"
    /\ LET port == commonPorts[det[d].i]
           open == /\ port \in remoteHost.listening
                   /\ remoteHost.reach = "yes"
           openPorts == IF open THEN Append(det[d].openPorts, port)
                        ELSE det[d].openPorts
           probed == Append(det[d].probed, port)
           shell == IF variant = "process" THEN Append(det[d].shell, port)
                    ELSE det[d].shell
       IN  det' = [det EXCEPT ![d] =
                     IF det[d].i < Len(commonPorts)
                     THEN [@ EXCEPT !.i = @ + 1, !.openPorts = openPorts,
                                    !.probed = probed, !.shell = shell]
                     ELSE [DetectReturn(d, openPorts)
                             EXCEPT !.openPorts = openPorts, !.probed = probed,
                                    !.shell = shell]]
    /\ UNCHANGED <<variant, sc, m, remoteHost, wire, req, caller, calls, pf, task, conns,
                   proc, bound, crashed, hist>>

DetectStep(d) ==
    Detect_Dial(d) \/ Detect_Run(d) \/ Detect_Output(d) \/ Detect_Probe(d)

\* ---------------------------------------------------------------------------
\* Specification of discovery alone: DetectPorts is issued for a host
\* ---------------------------------------------------------------------------

\* A run is issued when the runs before it have returned (runs share no state).
DetectPorts(d) ==
    /\ Alive
    /\ det[d].pc = "idle"
    /\ \A e \in Detects \ {d} : det[e].pc \in {"idle", "done"}
    /\ det' = [det EXCEPT ![d] = DetectIssued(0)]
    /\ UNCHANGED <<variant, sc, m, remoteHost, wire, req, caller, calls, pf, task, conns,
                   proc, bound, crashed, hist>>

InitDet ==
    /\ variant \in Variants
    /\ caller = [t \in Callers |-> IdleCaller(t)]
    /\ calls = 0
    /\ pf = [s \in Sessions |-> NoForwarder]
    /\ req = [t \in Callers |-> NoRequest]
    /\ task = [s \in Sessions |-> NoTask]
    /\ conns = [c \in 1..MaxConns |-> NoConn]
    /\ proc = [s \in Sessions |-> "none"]
    /\ bound = [p \in Ports |-> Free]
    /\ crashed = FALSE
    /\ hist = [s \in Sessions |-> NoHist]
    /\ m = NewModel(NumHosts)
    /\ det = [d \in Detects |-> NoDetect]
    /\ remoteHost \in RemoteHosts
    /\ wire = [c \in 1..MaxConns |-> NoWire]
    /\ sc = NoConfig

NextDet == \E d \in Detects : DetectPorts(d) \/ DetectStep(d)

SpecDet == InitDet /\ [][NextDet]_vars

\* The program's own steps of a discovery run go on; the return of a remote
\* command's Output() waits for the remote command, which nothing bounds.
FairnessDet ==
    \A d \in Detects :
      WF_vars(DetectPorts(d) \/ Detect_Dial(d) \/ Detect_Run(d) \/ Detect_Probe(d))

FairSpecDet == SpecDet /\ FairnessDet

\* ---------------------------------------------------------------------------
\* The TUI: Model.Update (src/unnamed/part_000:397-556).  Update handles one
\* message at a time; a command it returns runs in a goroutine of its own and
\* its result comes back as a message.
\* ---------------------------------------------------------------------------

\* Keys the operator presses ("x" is any key without a meaning).  The digits
\* offered are those of the model's ports.
Keys == {"q", "ctrl+c", "esc", "enter", "up", "down", "m", "backspace", "x"}
          \cup {DigitChars[p + 1] : p \in 0..NumPorts}

\* Update takes messages while the program runs and no handler is in a call.
Ready == Alive /\ m.pc = "ready"

\* Goroutine and session slots that a StartForward command has used; the next
\* command takes the lowest unused slot, while the operator has commands left.
Issued ==
    {t \in Callers : ~(caller[t].pc = "idle" /\ req[t].remote = 0 /\ req[t].msg = "none")}

FreeSlot(t) ==
    /\ t \notin Issued
    /\ \A u \in Callers : u < t => u \in Issued
    /\ Cardinality(Issued) < MaxForwards

\* updateHostSelection; Enter issues DetectPorts for the host under the cursor.
\* An index expression hosts[i] or ports[i] with i out of range panics.
updateHostSelection(key, d) ==
    /\ Ready
    /\ m.state = "SelectHost"
    /\ CASE key \in {"ctrl+c", "q"} ->
              /\ m' = [m EXCEPT !.quit = TRUE]
              /\ UNCHANGED <<det, crashed>>
         [] key = "up" ->
              /\ m' = [m EXCEPT !.cursor = IF @ > 0 THEN @ - 1 ELSE @]
              /\ UNCHANGED <<det, crashed>>
         [] key = "down" ->
              /\ m' = [m EXCEPT !.cursor = IF @ < m.hosts - 1 THEN @ + 1 ELSE @]
              /\ UNCHANGED <<det, crashed>>
         [] key = "enter" ->
              IF m.cursor >= m.hosts
              THEN /\ crashed' = TRUE
                   /\ UNCHANGED <<m, det>>
              ELSE /\ det[d].pc = "idle"
                   /\ m' = [m EXCEPT !.selectedHost = m.cursor, !.state = "Connecting"]
                   /\ det' = [det EXCEPT ![d] = DetectIssued(m.cursor)]
                   /\ UNCHANGED crashed
         [] key = "m" ->
              /\ m' = [m EXCEPT !.selectedHost = m.cursor, !.state = "ManualPort",
                                !.manualPort = <<>>]
              /\ UNCHANGED <<det, crashed>>
         [] OTHER -> UNCHANGED <<m, det, crashed>>
    /\ UNCHANGED <<variant, sc, remoteHost, wire, req, caller, calls, pf, task, conns,
                   proc, bound, hist>>

\* updateConnecting
updateConnecting(key) ==
    /\ Ready
    /\ m.state = "Connecting"
    /\ CASE key \in {"ctrl+c", "q"} -> m' = [m EXCEPT !.quit = TRUE]
         [] key = "esc" -> m' = [m EXCEPT !.state = "SelectHost",
                                         !.cursor = m.selectedHost]
         [] OTHER -> UNCHANGED m
    /\ UNCHANGED <<variant, sc, det, remoteHost, wire, req, caller, calls, pf, task,
                   conns, proc, bound, crashed, hist>>

\* updatePortSelection; Enter issues StartPortForwarding for the port under
\* the cursor.
updatePortSelection(key, t) ==
    /\ Ready
    /\ m.state = "SelectPort"
    /\ CASE key \in {"ctrl+c", "q"} ->
              /\ m' = [m EXCEPT !.quit = TRUE]
              /\ UNCHANGED <<req, caller, crashed>>
         [] key = "esc" ->
              /\ m' = [m EXCEPT !.state = "SelectHost", !.cursor = m.selectedHost]
              /\ UNCHANGED <<req, caller, crashed>>
         [] key = "up" ->
              /\ m' = [m EXCEPT !.cursor = IF @ > 0 THEN @ - 1 ELSE @]
              /\ UNCHANGED <<req, caller, crashed>>
         [] key = "down" ->
              /\ m' = [m EXCEPT !.cursor = IF @ < Len(m.ports) - 1 THEN @ + 1 ELSE @]
              /\ UNCHANGED <<req, caller, crashed>>
         [] key = "enter" ->
              IF m.cursor >= Len(m.ports) \/ m.selectedHost >= m.hosts
              THEN /\ crashed' = TRUE
                   /\ UNCHANGED <<m, req, caller>>
              ELSE /\ FreeSlot(t)
                   /\ m.ports[m.cursor + 1] \in Ports
                   /\ m' = [m EXCEPT !.selectedPort = m.cursor]
                   /\ ForwardIssued(t, m.ports[m.cursor + 1])
                   /\ UNCHANGED crashed
         [] key = "m" ->
              /\ m' = [m EXCEPT !.state = "ManualPort", !.manualPort = <<>>]
              /\ UNCHANGED <<req, caller, crashed>>
         [] OTHER -> UNCHANGED <<m, req, caller, crashed>>
    /\ UNCHANGED <<variant, sc, det, remoteHost, wire, calls, pf, task, conns, proc,
                   bound, hist>>

\* A digit is typed while the buffer has room and spells a port of the model.
KeyOffered(key) ==
    (m.state = "ManualPort" /\ IsDigit(key)) =>
        /\ Len(m.manualPort) < MaxDigits
        /\ Atoi(Append(m.manualPort, key)).val <= NumPorts

\* An updateManualPort whose default case appends every key of one character,
\* digit or not.
updateManualPortMutant(key, t) ==
    /\ Ready
    /\ m.state = "ManualPort"
    /\ KeyOffered(key)
    /\ CASE key \in {"ctrl+c", "q"} ->
              /\ m' = [m EXCEPT !.quit = TRUE]
              /\ UNCHANGED <<req, caller, crashed>>
         [] key = "esc" ->
              /\ m' = [m EXCEPT !.state = IF Len(m.ports) > 0 THEN "SelectPort"
                                          ELSE "SelectHost"]
              /\ UNCHANGED <<req, caller, crashed>>
         [] key = "enter" ->
              IF m.manualPort = <<>>
              THEN UNCHANGED <<m, req, caller, crashed>>
              ELSE IF m.selectedHost >= m.hosts
                   THEN /\ crashed' = TRUE
                        /\ UNCHANGED <<m, req, caller>>
                   ELSE /\ FreeSlot(t)
                        /\ ManualIssued(t, m.manualPort)
                        /\ UNCHANGED <<m, crashed>>
         [] key = "backspace" ->
              /\ m' = [m EXCEPT !.manualPort =
                         IF Len(@) > 0 THEN SubSeq(@, 1, Len(@) - 1) ELSE @]
              /\ UNCHANGED <<req, caller, crashed>>
         [] OTHER ->
              /\ m' = [m EXCEPT !.manualPort =
                         IF IsDigit(key) \/ key \in {"m", "x"} THEN Append(@, key) ELSE @]
              /\ UNCHANGED <<req, caller, crashed>>
    /\ UNCHANGED <<variant, sc, det, remoteHost, wire, calls, pf, task, conns, proc,
                   bound, hist>>

\* updateManualPort; Enter with a non-empty buffer issues
\* StartManualPortForwarding.
updateManualPort(key, t) ==
    /\ Ready
    /\ m.state = "ManualPort"
    /\ KeyOffered(key)
    /\ CASE key \in {"ctrl+c", "q"} ->
              /\ m' = [m EXCEPT !.quit = TRUE]
              /\ UNCHANGED <<req, caller, crashed>>
         [] key = "esc" ->
              /\ m' = [m EXCEPT !.state = IF Len(m.ports) > 0 THEN "SelectPort"
                                          ELSE "SelectHost"]
              /\ UNCHANGED <<req, caller, crashed>>
         [] key = "enter" ->
              IF m.manualPort = <<>>
              THEN UNCHANGED <<m, req, caller, crashed>>
              ELSE IF m.selectedHost >= m.hosts
                   THEN /\ crashed' = TRUE
                        /\ UNCHANGED <<m, req, caller>>
                   ELSE /\ FreeSlot(t)
                        /\ ManualIssued(t, m.manualPort)
                        /\ UNCHANGED <<m, crashed>>
         [] key = "backspace" ->
              /\ m' = [m EXCEPT !.manualPort =
                         IF Len(@) > 0 THEN SubSeq(@, 1, Len(@) - 1) ELSE @]
              /\ UNCHANGED <<req, caller, crashed>>
         [] OTHER ->
              /\ m' = [m EXCEPT !.manualPort =
                         IF IsDigit(key) THEN Append(@, key) ELSE @]
              /\ UNCHANGED <<req, caller, crashed>>
    /\ UNCHANGED <<variant, sc, det, remoteHost, wire, calls, pf, task, conns, proc,
                   bound, hist>>

\* updateForwarding: `if m.forwarder != nil { m.forwarder.Stop() }` comes first
\* on both keys; the handler is inside that call until Stop returns.
updateForwarding(key) ==
    /\ Ready
    /\ m.state = "Forwarding"
    /\ CASE key \in {"ctrl+c", "q"} ->
              m' = IF m.forwarder # 0 THEN [m EXCEPT !.pc = "stop_quit"]
                   ELSE [m EXCEPT !.quit = TRUE]
         [] key = "esc" ->
              m' = IF m.forwarder # 0 THEN [m EXCEPT !.pc = "stop_esc"]
                   ELSE [m EXCEPT !.state = "SelectHost", !.cursor = 0]
         [] OTHER -> UNCHANGED m
    /\ UNCHANGED <<variant, sc, det, remoteHost, wire, req, caller, calls, pf, task,
                   conns, proc, bound, crashed, hist>>

\* Update, case PortsDetectedMsg: the result of run d arrives.
Update_PortsDetected(d) ==
    /\ Ready
    /\ det[d].pc = "done"
    /\ det' = [det EXCEPT ![d] = [NoDetect EXCEPT !.pc = "delivered",
                                                !.host = det[d].host,
                                                !.ports = det[d].ports]]
    /\ IF det[d].ports = <<>> /\ m.selectedHost >= m.hosts
       THEN /\ crashed' = TRUE
            /\ m' = [m EXCEPT !.ports = det[d].ports, !.state = "SelectPort",
                              !.cursor = 0]
       ELSE /\ m' = [m EXCEPT !.ports = det[d].ports, !.state = "SelectPort",
                              !.cursor = 0]
            /\ UNCHANGED crashed
    /\ UNCHANGED <<variant, sc, remoteHost, wire, req, caller, calls, pf, task, conns,
                   proc, bound, hist>>

\* Update, case ForwardingStartedMsg: the result of goroutine t's command.
Update_ForwardingStarted(t) ==
    /\ Ready
    /\ caller[t].pc = "done"
    /\ req[t].msg = "ForwardingStarted"
    /\ Goto(t, "delivered")
    /\ IF m.selectedHost >= m.hosts
       THEN /\ crashed' = TRUE
            /\ UNCHANGED m
       ELSE /\ m' = [m EXCEPT !.state = "Forwarding"]
            /\ UNCHANGED crashed
    /\ UNCHANGED <<variant, sc, det, remoteHost, wire, req, calls, pf, task, conns,
                   proc, bound, hist>>

\* Update, case ErrorMsg: m.err = msg.Error; return m, tea.Quit
Update_Error(t) ==
    /\ Ready
    /\ caller[t].pc = "done"
    /\ req[t].msg = "Error"
    /\ Goto(t, "delivered")
    /\ m' = [m EXCEPT !.err = "error", !.quit = TRUE]
    /\ UNCHANGED <<variant, sc, det, remoteHost, wire, req, calls, pf, task, conns,
                   proc, bound, crashed, hist>>

\* ---------------------------------------------------------------------------
\* Specification of the program under its operator: keys, commands and their
\* results.  No local client connects to a forwarded port here and no other
\* program binds a local port.  The Stop call
\* of updateForwarding is guarded by m.forwarder, which no statement of the
\* program assigns (TuiForwarderNil), so no step of Stop is part of NextTui.
\* ---------------------------------------------------------------------------

\* The remote hosts of this specification.
TuiRemoteHosts ==
    {[reach |-> "yes", output |-> << <<"2">>, <<"1">> >>, listening |-> {443}],
     [reach |-> "no", output |-> <<>>, listening |-> {}]}

InitTui ==
    /\ variant \in Variants
    /\ caller = [t \in Callers |-> IdleCaller(t)]
    /\ calls = 0
    /\ pf = [s \in Sessions |-> NoForwarder]
    /\ req = [t \in Callers |-> NoRequest]
    /\ task = [s \in Sessions |-> NoTask]
    /\ conns = [c \in 1..MaxConns |-> NoConn]
    /\ proc = [s \in Sessions |-> "none"]
    /\ bound = [p \in Ports |-> Free]
    /\ crashed = FALSE
    /\ hist = [s \in Sessions |-> NoHist]
    /\ \E h \in 0..NumHosts : m = NewModel(h)
    /\ det = [d \in Detects |-> NoDetect]
    /\ remoteHost \in TuiRemoteHosts
    /\ wire = [c \in 1..MaxConns |-> NoWire]
    /\ sc = NoConfig

KeyStep ==
    \/ \E key \in Keys, d \in Detects : updateHostSelection(key, d)
    \/ \E key \in Keys : updateConnecting(key)
    \/ \E key \in Keys, t \in Callers : updatePortSelection(key, t)
    \/ \E key \in Keys, t \in Callers : updateManualPort(key, t)
    \/ \E key \in Keys : updateForwarding(key)

MessageStep ==
    \/ \E d \in Detects : Update_PortsDetected(d)
    \/ \E t \in Callers : Update_ForwardingStarted(t) \/ Update_Error(t)

\* The steps of a StartForward command after it was issued.
CommandStep(t) ==
    \/ isPortAvailable_Listen(t) \/ isPortAvailable_Close(t)
    \/ findAvailablePort_Listen(t) \/ findAvailablePort_Close(t)
    \/ createSSHClient(t)
    \/ StartPortForwarding_Start(t) \/ StartPortForwarding_Result(t)

\* The accept loop of a listener nobody connects to.
AcceptIdleStep(s) ==
    Accept_Select(s) \/ Accept_Timeout(s) \/ Accept_Error(s) \/ Accept_ErrCheck(s)

SshStep(s) == Ssh_Forward(s) \/ Ssh_ConnectFail(s) \/ Ssh_Exit(s)

NextTui ==
    \/ KeyStep
    \/ MessageStep
    \/ \E d \in Detects : DetectStep(d)
    \/ \E t \in Callers : CommandStep(t) \/ StartStep(t)
    \/ \E s \in Sessions : AcceptIdleStep(s) \/ MonitorStep(s) \/ SshStep(s)

SpecTui == InitTui /\ [][NextTui]_vars

\* The Go runtime runs every goroutine that can take a step, and Update
\* handles every message that has arrived.  The operator, the ssh process and
\* other programs are not obliged to act.
FairnessTui ==
    /\ WF_vars(MessageStep)
    /\ \A t \in Callers : WF_vars(CommandStep(t) \/ StartStep(t))
    /\ \A s \in Sessions : WF_vars(AcceptIdleStep(s)) /\ WF_vars(MonitorStep(s))
    /\ \A d \in Detects :
         WF_vars(Detect_Dial(d) \/ Detect_Run(d) \/ Detect_Probe(d))

FairSpecTui == SpecTui /\ FairnessTui

\* m.forwarder is nil in every state.
TuiForwarderNil == m.forwarder = 0

\* ---------------------------------------------------------------------------
\* The bytes of a bridged connection: io.Copy(dst, src) reads a chunk from src
\* and writes it to dst until a read returns EOF or a call fails
\* (src/README.md:588-596).  Direction "l2r" is io.Copy(remoteConn, localConn),
\* direction "r2l" is io.Copy(localConn, remoteConn).
\* ---------------------------------------------------------------------------

Bytes == {"a", "b"}

Directions == {"l2r", "r2l"}

\* Bytes written so far by the clients and the remote service together.
RECURSIVE SentOn(_)
SentOn(cs) ==
    IF cs = {} THEN 0
    ELSE LET c == CHOOSE x \in cs : TRUE
         IN  Len(wire[c].l2r.sent) + Len(wire[c].r2l.sent) + SentOn(cs \ {c})

\* The peer that direction dir writes to has closed its end.
SinkClosed(c, dir) ==
    IF dir = "l2r" THEN conns[c].remoteClosed ELSE conns[c].clientClosed

\* The local client writes a byte; its connection may still wait in the backlog.
Client_Write(c, b) ==
    /\ Alive
    /\ conns[c].st \in {"pending", "accepted", "dial", "copy"}
    /\ ~conns[c].clientClosed
    /\ SentOn(Conns) < MaxBytes
    /\ wire' = [wire EXCEPT ![c].l2r.sent = Append(@, b)]
    /\ UNCHANGED <<variant, sc, m, det, remoteHost, req, caller, calls, pf, task, conns,
                   proc, bound, crashed, hist>>

\* The remote service writes a byte on a connection that was dialed to it.
Remote_Write(c, b) ==
    /\ Alive
    /\ conns[c].st = "copy"
    /\ ~conns[c].remoteClosed
    /\ SentOn(Conns) < MaxBytes
    /\ wire' = [wire EXCEPT ![c].r2l.sent = Append(@, b)]
    /\ UNCHANGED <<variant, sc, m, det, remoteHost, req, caller, calls, pf, task, conns,
                   proc, bound, crashed, hist>>

\* io.Copy: src.Read returns the next n bytes that have arrived.
Copy_Read(c, dir) ==
    /\ Alive
    /\ conns[c].st = "copy"
    /\ conns[c][dir] = "run"
    /\ wire[c][dir].buf = <<>>
    /\ \E n \in 1..(Len(wire[c][dir].sent) - wire[c][dir].read) :
         wire' = [wire EXCEPT
                    ![c][dir].buf = SubSeq(wire[c][dir].sent, wire[c][dir].read + 1,
                                           wire[c][dir].read + n),
                    ![c][dir].read = @ + n]
    /\ UNCHANGED <<variant, sc, m, det, remoteHost, req, caller, calls, pf, task, conns,
                   proc, bound, crashed, hist>>

\* io.Copy: dst.Write of the chunk; a write to a peer that has closed fails and
\* ends this io.Copy.
Copy_WriteMutant(c, dir) ==
    /\ Alive
    /\ conns[c].st = "copy"
    /\ conns[c][dir] = "run"
    /\ wire[c][dir].buf # <<>>
    /\ IF SinkClosed(c, dir)
       THEN /\ wire' = [wire EXCEPT ![c][dir].buf = <<>>]
            /\ conns' = [conns EXCEPT ![c][dir] = "done"]
       ELSE /\ wire' = [wire EXCEPT ![c][dir].rcvd = wire[c][dir].buf \o @,
                                    ![c][dir].buf = <<>>]
            /\ UNCHANGED conns
    /\ UNCHANGED <<variant, sc, m, det, remoteHost, req, caller, calls, pf, task, proc,
                   bound, crashed, hist>>

Copy_Write(c, dir) ==
    /\ Alive
    /\ conns[c].st = "copy"
    /\ conns[c][dir] = "run"
    /\ wire[c][dir].buf # <<>>
    /\ IF SinkClosed(c, dir)
       THEN /\ wire' = [wire EXCEPT ![c][dir].buf = <<>>]
            /\ conns' = [conns EXCEPT ![c][dir] = "done"]
       ELSE /\ wire' = [wire EXCEPT ![c][dir].rcvd = @ \o wire[c][dir].buf,
                                    ![c][dir].buf = <<>>]
            /\ UNCHANGED conns
    /\ UNCHANGED <<variant, sc, m, det, remoteHost, req, caller, calls, pf, task, proc,
                   bound, crashed, hist>>

\* ---------------------------------------------------------------------------
\* Specification of the bridge: one listener session, its clients and the
\* remote service; Start is called once and Stop never
\* ---------------------------------------------------------------------------

InitBridge ==
    /\ variant = "listener"
    /\ caller = [t \in Callers |-> IdleCaller(1)]
    /\ calls = 0
    /\ pf = [s \in Sessions |->
               IF s = 1 THEN NewPortForwarder("connected", 1, 1) ELSE NoForwarder]
    /\ req = [t \in Callers |-> NoRequest]
    /\ task = [s \in Sessions |-> NoTask]
    /\ conns = [c \in 1..(MaxConns + 1) |-> NoConn]
    /\ proc = [s \in Sessions |-> "none"]
    /\ bound = [p \in Ports |-> Free]
    /\ crashed = FALSE
    /\ hist = [s \in Sessions |-> NoHist]
    /\ m = NewModel(0)
    /\ det = [d \in Detects |-> NoDetect]
    /\ remoteHost = NoRemoteHost
    /\ wire = [c \in 1..(MaxConns + 1) |-> NoWire]
    /\ sc = NoConfig

\* The one call of Start.
Bridge_Start ==
    /\ calls = 0
    /\ Call_Start(1)

StartListenStep(t) ==
    Start_Lock(t) \/ Start_Check(t) \/ Start_Listen(t) \/ Start_Launch(t)

ByteStep(c) ==
    \/ \E b \in Bytes : Client_Write(c, b) \/ Remote_Write(c, b)
    \/ \E dir \in Directions : Copy_Read(c, dir) \/ Copy_Write(c, dir)

NextBridge ==
    \/ Bridge_Start
    \/ \E t \in Callers : StartListenStep(t)
    \/ \E s \in Sessions : AcceptStep(s) \/ ClientConnect(s)
    \/ \E c \in 1..(MaxConns + 1) :
         HandleStep(c) \/ ByteStep(c) \/ ClientClose(c) \/ RemoteClose(c)

SpecBridge == InitBridge /\ [][NextBridge]_vars

\* ---------------------------------------------------------------------------
\* Specification of the StartForward commands, selected from the list or typed:
\* every goroutine runs one command on a session of its own while other
\* programs bind and release local ports.  No client connects and Stop is not
\* called.
\* ---------------------------------------------------------------------------

BeginStep(t) == StartPortForwarding_Begin(t) \/ StartManualPortForwarding_Begin(t)

OtherStep(p) == OtherBind(p) \/ OtherRelease(p)

NextCmd ==
    \/ \E t \in Callers : BeginStep(t) \/ CommandStep(t) \/ StartStep(t)
    \/ \E s \in Sessions : AcceptIdleStep(s) \/ MonitorStep(s) \/ SshStep(s)
    \/ \E p \in Ports : OtherStep(p)

SpecCmd == InitFwd /\ [][NextCmd]_vars


\* ---------------------------------------------------------------------------
\* SSHConfig.LoadConfigFromFile: the configuration file and the files its
\* Include directives name (src/port_forwarder.go:398-524).  A file is the
\* sequence of its directives; an Include directive is modelled by the files
\* its pattern matches, which filepath.Glob returns in ascending order.  Only
\* Host and Include directives matter here.
\* ---------------------------------------------------------------------------

Files == 1..NumFiles

HostLine(f) == [key |-> "host", name |-> f, matches |-> {}]

IncludeLine(S) == [key |-> "include", name |-> 0, matches |-> S]

\* What file f can hold: its own Host entry, alone or with one Include
\* directive before or after it.
Contents(f) ==
    {<<HostLine(f)>>}
      \cup {<<IncludeLine(S), HostLine(f)>> : S \in SUBSET Files \ {{}}}
      \cup {<<HostLine(f), IncludeLine(S)>> : S \in SUBSET Files \ {{}}}

FileSystems ==
    {fs \in [Files -> UNION {Contents(f) : f \in Files}] :
       \A f \in Files : fs[f] \in Contents(f)}

\* The matches of a pattern, in the order of filepath.Glob.
RECURSIVE Glob(_)
Glob(S) ==
    IF S = {} THEN <<>>
    ELSE LET x == CHOOSE y \in S : \A z \in S : y <= z
         IN  <<x>> \o Glob(S \ {x})

\* A call of loadConfigFromFileRecursive(path, visited) that has opened file f:
\* the next line to scan, its currentHost (0 is nil), and, while it is inside
\* processInclude, the matches not yet processed.
Frame(f) ==
    [file |-> f, line |-> 1, currentHost |-> 0, inInclude |-> FALSE, matches |-> <<>>]

Top == sc.stack[Len(sc.stack)]

\* sc.Hosts after `if currentHost != nil { sc.Hosts = append(...) }`.
WithHost(hosts, currentHost) ==
    IF currentHost # 0 THEN Append(hosts, currentHost) ELSE hosts

\* LoadConfigFromFile(path): the first call, with an empty visited map; the
\* file is marked visited and opened.
LoadConfigFromFile ==
    /\ Alive
    /\ sc.pc = "idle"
    /\ sc.files # <<>>
    /\ sc' = [sc EXCEPT !.pc = "loading", !.visited = {1},
                        !.stack = <<Frame(1)>>, !.opens = <<1>>]
    /\ UNCHANGED <<variant, caller, calls, pf, task, conns, proc, bound, req,
                   crashed, hist, m, det, remoteHost, wire>>

\* The scanner reads a Host line: the previous host is saved and a new one
\* started.
Load_Host ==
    /\ Alive
    /\ sc.pc = "loading"
    /\ ~Top.inInclude
    /\ Top.line <= Len(sc.files[Top.file])
    /\ LET d == sc.files[Top.file][Top.line] IN
         /\ d.key = "host"
         /\ sc' = [sc EXCEPT !.Hosts = WithHost(@, Top.currentHost),
                             !.stack[Len(sc.stack)].currentHost = d.name,
                             !.stack[Len(sc.stack)].line = @ + 1]
    /\ UNCHANGED <<variant, caller, calls, pf, task, conns, proc, bound, req,
                   crashed, hist, m, det, remoteHost, wire>>

\* The scanner reads an Include line: processInclude(value, visited) is called
\* and globs the pattern.
Load_Include ==
    /\ Alive
    /\ sc.pc = "loading"
    /\ ~Top.inInclude
    /\ Top.line <= Len(sc.files[Top.file])
    /\ LET d == sc.files[Top.file][Top.line] IN
         /\ d.key = "include"
         /\ sc' = [sc EXCEPT !.stack[Len(sc.stack)].inInclude = TRUE,
                             !.stack[Len(sc.stack)].matches = Glob(d.matches),
                             !.stack[Len(sc.stack)].line = @ + 1]
    /\ UNCHANGED <<variant, caller, calls, pf, task, conns, proc, bound, req,
                   crashed, hist, m, det, remoteHost, wire>>

\* processInclude's loop over the matches: loadConfigFromFileRecursive(match,
\* visited) is called for the next one.  When the match is in visited the call
\* returns the "circular include" error without opening the file, processInclude
\* returns that error at once, and the including file logs a warning and scans
\* on.  After the last match processInclude returns nil.
processInclude_Next ==
    /\ Alive
    /\ sc.pc = "loading"
    /\ Top.inInclude
    /\ IF Top.matches = <<>>
       THEN sc' = [sc EXCEPT !.stack[Len(sc.stack)].inInclude = FALSE]
       ELSE LET match == Head(Top.matches) IN
            IF match \in sc.visited
            THEN sc' = [sc EXCEPT !.warnings = @ + 1,
                                  !.stack[Len(sc.stack)].matches = <<>>,
                                  !.stack[Len(sc.stack)].inInclude = FALSE]
            ELSE sc' = [sc EXCEPT !.visited = @ \cup {match},
                                  !.opens = Append(@, match),
                                  !.stack = Append([@ EXCEPT ![Len(sc.stack)].matches = Tail(@)],
                                                   Frame(match))]
    /\ UNCHANGED <<variant, caller, calls, pf, task, conns, proc, bound, req,
                   crashed, hist, m, det, remoteHost, wire>>

\* The scanner is at the end of the file: the last host is added, the deferred
\* delete(visited, absPath) runs and the call returns nil.
Load_Return ==
    /\ Alive
    /\ sc.pc = "loading"
    /\ ~Top.inInclude
    /\ Top.line > Len(sc.files[Top.file])
    /\ sc' = [sc EXCEPT !.Hosts = WithHost(@, Top.currentHost),
                        !.visited = @ \ {Top.file},
                        !.stack = SubSeq(@, 1, Len(@) - 1),
                        !.pc = IF Len(sc.stack) = 1 THEN "done" ELSE @]
    /\ UNCHANGED <<variant, caller, calls, pf, task, conns, proc, bound, req,
                   crashed, hist, m, det, remoteHost, wire>>

\* ---------------------------------------------------------------------------
\* Specification of loading a configuration: file 1 is the configuration file
\* ---------------------------------------------------------------------------

InitCfg ==
    /\ variant = "process"
    /\ caller = [t \in Callers |-> IdleCaller(t)]
    /\ calls = 0
    /\ pf = [s \in Sessions |-> NoForwarder]
    /\ req = [t \in Callers |-> NoRequest]
    /\ task = [s \in Sessions |-> NoTask]
    /\ conns = [c \in 1..MaxConns |-> NoConn]
    /\ proc = [s \in Sessions |-> "none"]
    /\ bound = [p \in Ports |-> Free]
    /\ crashed = FALSE
    /\ hist = [s \in Sessions |-> NoHist]
    /\ m = NewModel(0)
    /\ det = [d \in Detects |-> NoDetect]
    /\ remoteHost = NoRemoteHost
    /\ wire = [c \in 1..MaxConns |-> NoWire]
    /\ \E fs \in FileSystems : sc = [NoConfig EXCEPT !.files = fs]

NextCfg ==
    \/ LoadConfigFromFile
    \/ Load_Host
    \/ Load_Include
    \/ processInclude_Next
    \/ Load_Return

SpecCfg == InitCfg /\ [][NextCfg]_vars

\* The loader is a sequential function: it keeps taking its next step.
FairSpecCfg == SpecCfg /\ WF_vars(NextCfg)


\* ---------------------------------------------------------------------------
\* Specification of the operator moving between hosts: a configuration of up
\* to NumHosts + 1 hosts, the keys of the selection and manual-entry states
\* and the discovery runs.  The StartForward commands that Enter issues are
\* not followed here.
\* ---------------------------------------------------------------------------

InitNav ==
    /\ variant \in Variants
    /\ caller = [t \in Callers |-> IdleCaller(t)]
    /\ calls = 0
    /\ pf = [s \in Sessions |-> NoForwarder]
    /\ req = [t \in Callers |-> NoRequest]
    /\ task = [s \in Sessions |-> NoTask]
    /\ conns = [c \in 1..MaxConns |-> NoConn]
    /\ proc = [s \in Sessions |-> "none"]
    /\ bound = [p \in Ports |-> Free]
    /\ crashed = FALSE
    /\ hist = [s \in Sessions |-> NoHist]
    /\ \E h \in 0..(NumHosts + 1) : m = NewModel(h)
    /\ det = [d \in Detects |-> NoDetect]
    /\ remoteHost \in TuiRemoteHosts
    /\ wire = [c \in 1..MaxConns |-> NoWire]
    /\ sc = NoConfig

NavKeyStep ==
    \/ \E key \in Keys, d \in Detects : updateHostSelection(key, d)
    \/ \E key \in Keys : updateConnecting(key)
    \/ \E key \in Keys, t \in Callers : updatePortSelection(key, t)
    \/ \E key \in Keys, t \in Callers : updateManualPort(key, t)

NextNav ==
    \/ NavKeyStep
    \/ \E d \in Detects : Update_PortsDetected(d)
    \/ \E d \in Detects : DetectStep(d)

SpecNav == InitNav /\ [][NextNav]_vars


\* ---------------------------------------------------------------------------
\* Properties
\* ---------------------------------------------------------------------------

\* Caller t takes a step of its own.
Moves(t) == caller'[t] # caller[t]

\* Caller t is between Lock and Unlock of the session's mutex.
InCritical(t) ==
    caller[t].pc \in {"start_check", "start_open", "start_launch", "stop_check",
                      "stop_signal", "stop_release", "stop_wait"}

\* Session s has no live task and every connection it accepted is closed.
Drained(s) ==
    /\ pf[s].wg = 0
    /\ pf[s].listener # "open"
    /\ ~ProcAlive(s)
    /\ task[s].accept \in {"none", "done"}
    /\ task[s].monitor \in {"none", "done"}
    /\ \A c \in Conns :
         conns[c].s = s =>
           /\ conns[c].st \in {"done", "reset"}
           /\ conns[c].st = "done" =>
                conns[c].local = "closed" /\ conns[c].remote # "open"

\* C1: when Stop returns from tearing down a running session, the listener is
\* closed (the ssh process dead), the outstanding-task count is 0, neither the
\* accept loop, the monitor nor any handler or copy task is live, and every
\* accepted connection and its remote connection are closed.
C1_StopReturnsDrained ==
    [][\A t \in Callers :
         (caller[t].pc = "stop_wait" /\ caller'[t].pc = "returned")
           => Drained(SessOf(t))']_vars

\* Stop returned although connections were mid-copy when it raised the signal.
C1_Witness ==
    \E t \in Callers :
      /\ caller[t].pc = "returned" /\ caller[t].ret = "stopped"
      /\ variant = "listener"
      /\ hist[SessOf(t)].midCopy # {}

\* C2: under fair scheduling of the program's goroutines, a Stop that has
\* raised the stop signal on a running session returns, without any step of the
\* local client or the remote service.
C2_StopEventuallyReturns ==
    \A t \in Callers :
      (caller[t].pc = "stop_release") ~> (caller[t].pc = "returned")

\* C3: a Stop call on a session that is not running changes nothing but the
\* mutex it takes and releases, and returns as a no-op.
C3_StopIdempotent ==
    [][\A t \in Callers :
         LET s == SessOf(t) IN
         (caller[t].pc \in {"stop_lock", "stop_check"} /\ ~pf[s].isRunning /\ Moves(t))
           => /\ [pf'[s] EXCEPT !.mu = 0] = [pf[s] EXCEPT !.mu = 0]
              /\ UNCHANGED <<task, conns, proc, bound, crashed, hist>>
              /\ caller[t].pc = "stop_check"
                   => /\ caller'[t].pc = "returned"
                      /\ caller'[t].ret = "stop_noop"
                      /\ pf'[s].mu = 0]_vars

\* A second Stop, after a Stop that tore the session down, returned as a no-op.
C3_Witness ==
    \E t \in Callers :
      /\ caller[t].pc = "returned" /\ caller[t].ret = "stop_noop"
      /\ hist[SessOf(t)].teardowns = 1
      /\ hist[SessOf(t)].starts = 1

\* C4: Stopped is terminal: once a Stop has torn the session down no Start
\* succeeds on it, no listener is bound, no process is spawned and no task is
\* launched for it; a closed listener stays closed.
C4_StoppedIsTerminal ==
    [][\A s \in Sessions :
         hist[s].teardowns > 0
           => /\ hist'[s].starts = hist[s].starts
              /\ hist'[s].openListeners <= hist[s].openListeners
              /\ hist'[s].liveProcs <= hist[s].liveProcs
              /\ pf[s].listener = "closed" => pf'[s].listener = "closed"]_vars

\* C5: no sequence of Start and Stop calls faults the process: the stop channel
\* is closed at most once and no call panics.
C5_NoCallPanics ==
    /\ ~crashed
    /\ \A s \in Sessions : hist[s].closes <= 1

\* C6: a Start on a running session returns the 'already running' error and
\* changes nothing; a session never has two listeners or two ssh processes.
C6_StartOnRunningRefused ==
    /\ [](\A s \in Sessions :
            hist[s].openListeners <= 1 /\ hist[s].liveProcs <= 1)
    /\ [][\A t \in Callers :
            LET s == SessOf(t) IN
            (caller[t].pc = "start_check" /\ pf[s].isRunning /\ Moves(t))
              => /\ caller'[t].pc = "returned"
                 /\ caller'[t].ret = "err_running"
                 /\ pf'[s] = [pf[s] EXCEPT !.mu = 0]
                 /\ UNCHANGED <<task, conns, proc, bound, crashed, hist>>]_vars

\* A Start was refused while the session was running.
C6_Witness ==
    \E t \in Callers :
      /\ caller[t].pc = "returned" /\ caller[t].ret = "err_running"
      /\ pf[SessOf(t)].isRunning

\* C7: at most one caller is between Lock and Unlock of a session's mutex, the
\* mutex is held exactly then, and a session is torn down at most once per
\* successful Start (of two racing Stops one tears down, the other is a no-op).
C7_MutualExclusion ==
    \A s \in Sessions :
      LET inside == {t \in Callers : SessOf(t) = s /\ InCritical(t)} IN
      /\ Cardinality(inside) <= 1
      /\ \A t \in inside : pf[s].mu = t
      /\ (inside = {} /\ ~crashed) => pf[s].mu = 0
      /\ hist[s].teardowns <= hist[s].starts

\* One Stop is tearing a session down while the other caller's Stop waits for
\* the mutex.
C7_Witness ==
    \E t, u \in Callers :
      /\ t # u /\ SessOf(t) = SessOf(u)
      /\ caller[t].pc = "stop_wait"
      /\ caller[u].pc = "stop_lock"

\* C8: when Start fails to bind the listener or to spawn ssh it returns an
\* error with the running flag false, the outstanding-task count 0 and no task
\* launched, so that a Stop that follows is a no-op.
C8_FailedStartLeavesStopped ==
    [][\A t \in Callers :
         LET s == SessOf(t) IN
         (caller[t].pc = "start_open" /\ caller'[t].pc = "returned")
           => /\ caller'[t].ret = "err_start"
              /\ ~pf'[s].isRunning
              /\ StopSkipped(s)'
              /\ pf'[s].wg = 0
              /\ pf'[s].mu = 0
              /\ task'[s].accept \in {"none", "done"}
              /\ task'[s].monitor \in {"none", "done"}
              /\ hist'[s].starts = hist[s].starts]_vars

\* A Start has failed, and the Stop that followed it returned as a no-op.
C8_Witness ==
    \E t, u \in Callers :
      /\ caller[t].pc = "returned" /\ caller[t].ret = "err_start"
      /\ caller[u].pc = "returned" /\ caller[u].ret = "stop_noop"
      /\ hist[SessOf(t)].starts = 0

\* C9: when another program holds the allocated local port at the moment the
\* session's tunnel binds it, the request has ended in an ErrorMsg, never in a
\* ForwardingStartedMsg.
C9_StolenPortIsError ==
    \A t \in Callers :
      LET lost == \/ proc[t] = "bind_failed"
                  \/ caller[t].pc \in {"returned", "done"} /\ caller[t].ret = "err_start"
      IN (pf[t].made /\ lost /\ bound[pf[t].localPort] = Other)
           => req[t].msg # "ForwardingStarted"

\* C10: a request whose tunnel failed to connect or authenticate has not
\* reported ForwardingStartedMsg: that message is returned only for a tunnel
\* that is established.
C10_StartedMeansTunnel ==
    \A t \in Callers :
      req[t].msg = "ForwardingStarted"
        => /\ proc[t] # "connect_failed"
           /\ variant = "listener" => pf[t].sshClient = "connected"

\* C11: when Update handles the ErrorMsg of a StartForward command whose
\* session failed to start (the request had passed validation and allocation),
\* the program keeps running: Update does not quit.
C11_ErrorKeepsRunning ==
    [][\A t \in Callers :
         (/\ caller[t].pc = "done" /\ req[t].msg = "Error" /\ req[t].remote # 0
          /\ caller'[t].pc = "delivered")
           => ~m'.quit]_vars

\* C12: once the ssh process of a running session has ended on its own, the
\* session's running flag is eventually false (while the program runs).
C12_ExitedSessionStops ==
    \A s \in Sessions :
      (proc[s] = "exited" /\ pf[s].isRunning) ~> (~pf[s].isRunning \/ ~Alive)

\* C13: when Esc takes the TUI from the forwarding state back to host
\* selection, no session has a live ssh process or an open listener any more.
C13_EscStopsSession ==
    [][(m.state = "Forwarding" /\ m'.state = "SelectHost")
         => \A s \in Sessions : ~ProcAlive(s)' /\ pf'[s].listener # "open"]_vars

\* Connection c of the bridge is mid-copy with both endpoints open.
Bridged(c) ==
    /\ conns[c].st = "copy"
    /\ conns[c].local = "open"
    /\ conns[c].remote = "open"

\* The handler of connection c takes a step after its dial failed, or the step
\* in which the dial fails.
FailedDialStep(c) ==
    /\ conns'[c] # conns[c]
    /\ \/ conns[c].st = "dial" /\ conns'[c].st = "dial_failed"
       \/ conns[c].st = "dial_failed"
       \/ conns[c].st = "exiting" /\ conns[c].remote = "nil"

\* C14: when the dial for an accepted local connection fails, the handler
\* closes that local connection and starts no copy task for it; none of its
\* steps changes the session's running flag, its listener, its accept loop, the
\* other connections or any byte in flight.
C14_DialFailureDropsOneConn ==
    [][\A c \in Conns :
         FailedDialStep(c) =>
           /\ conns'[c].l2r = "none" /\ conns'[c].r2l = "none"
           /\ conns'[c].remote = "nil"
           /\ conns[c].st = "dial_failed" => conns'[c].local = "closed"
           /\ pf'[conns[c].s].isRunning = pf[conns[c].s].isRunning
           /\ pf'[conns[c].s].listener = pf[conns[c].s].listener
           /\ pf'[conns[c].s].stopChan = pf[conns[c].s].stopChan
           /\ task' = task
           /\ wire' = wire
           /\ \A o \in Conns \ {c} : conns'[o] = conns[o]]_vars

\* A connection was dropped on a failed dial while another one is bridged, the
\* session runs and its accept loop is live.
C14_Witness ==
    \E c, o \in Conns :
      /\ conns[c].st = "done" /\ conns[c].remote = "nil" /\ conns[c].local = "closed"
      /\ Bridged(o)
      /\ conns[o].s = conns[c].s
      /\ pf[conns[c].s].isRunning
      /\ pf[conns[c].s].listener = "open"
      /\ task[conns[c].s].accept = "select"

\* C15: once either copy direction of a bridged connection has ended, the
\* handler closes both endpoints and ends, without a step of the other peer.
C15_EitherCopyEndCloses ==
    \A c \in 1..MaxConns :
      (conns[c].st = "copy" /\ (conns[c].l2r = "done" \/ conns[c].r2l = "done"))
        ~> (conns[c].st \in {"exiting", "done"} \/ ~Alive)

\* Sequence p is a prefix of sequence q.
IsPrefix(p, q) ==
    /\ Len(p) <= Len(q)
    /\ p = SubSeq(q, 1, Len(p))

\* C16: on every bridged connection and in both directions, the bytes
\* delivered to the receiving endpoint are at every moment a prefix of the
\* bytes the sending peer wrote on that same connection.
C16_BytesArriveInOrder ==
    \A c \in Conns : \A dir \in Directions :
      IsPrefix(wire[c][dir].rcvd, wire[c][dir].sent)

\* Two different bytes of one client have reached the remote service while a
\* second connection is open.
C16_Witness ==
    \E c, o \in Conns :
      /\ c # o
      /\ conns[o].st \in {"pending", "accepted", "dial", "copy"}
      /\ Len(wire[c].l2r.rcvd) = 2
      /\ wire[c].l2r.rcvd[1] # wire[c].l2r.rcvd[2]

\* Every step of run d failed: the host could not be reached, or no command
\* gave a listing and no probe found an open port.
AllFailed(d) ==
    \/ remoteHost.reach # "yes"
    \/ det[d].probed = commonPorts /\ det[d].openPorts = <<>>

\* C17: a discovery run ends in one PortsDetectedMsg and never in an ErrorMsg;
\* when every step of the run failed the message carries an empty port list,
\* and a run that has returned its message returns nothing more.
C17_DiscoverNeverErrors ==
    /\ [](\A d \in Detects :
            /\ det[d].msg \in {"none", "PortsDetected"}
            /\ det[d].msg = "PortsDetected" <=> det[d].pc = "done"
            /\ (det[d].pc = "done" /\ AllFailed(d)) => det[d].ports = <<>>)
    /\ [][\A d \in Detects : det[d].pc = "done" => det'[d] = det[d]]_vars

\* A run of the process build against a host that cannot be reached: all three
\* commands and all probes failed and the run returned an empty list.
C17_Witness ==
    \E d \in Detects :
      /\ det[d].pc = "done" /\ det[d].msg = "PortsDetected"
      /\ remoteHost.reach = "no" /\ variant = "process"
      /\ det[d].probed = commonPorts
      /\ det[d].ports = <<>>

\* The sequence of integers is strictly ascending.
StrictlyAscending(s) ==
    \A i \in 1..(Len(s) - 1) : s[i] < s[i + 1]

\* C18: the port list a discovery run returns is strictly ascending (hence
\* duplicate-free) and holds only integers from 1 to 65535, whether it was
\* parsed from a command's output or produced by the probes.
C18_PortsAscendingInRange ==
    \A d \in Detects :
      det[d].pc = "done" =>
        /\ StrictlyAscending(det[d].ports)
        /\ \A i \in 1..Len(det[d].ports) : det[d].ports[i] \in 1..65535

\* A run returned two ports parsed from an output that listed them out of
\* order and one of them twice.
C18_Witness ==
    \E d \in Detects :
      /\ det[d].pc = "done"
      /\ det[d].probed = <<>>
      /\ Len(det[d].output) = 3
      /\ ~StrictlyAscending(parseLines(det[d].output))
      /\ Len(parseLines(det[d].output)) = 3
      /\ Len(det[d].ports) = 2

\* The elements of sequence s that are in set S, in the order of s.
RECURSIVE Restrict(_, _)
Restrict(s, S) ==
    IF s = <<>> THEN <<>>
    ELSE (IF Head(s) \in S THEN <<Head(s)>> ELSE <<>>) \o Restrict(Tail(s), S)

\* C19: when none of the three commands gave a listing, the run probes each
\* port of the fixed list once, in the order of the list, and returns exactly
\* those whose probe succeeded: no port from outside the list, and the empty
\* list when no probe succeeded.
C19_FallbackReturnsReachable ==
    \A d \in Detects :
      /\ (det[d].pc = "done" /\ det[d].k = Len(commands)
            /\ (det[d].err \/ det[d].output = <<>>))
           => /\ det[d].probed = commonPorts
              /\ det[d].ports =
                   Restrict(commonPorts,
                            IF remoteHost.reach = "yes" THEN remoteHost.listening
                            ELSE {})
      /\ det[d].probed # <<>>
           => /\ det[d].k = Len(commands)
              /\ det[d].err \/ det[d].output = <<>>
              /\ IsPrefix(det[d].probed, commonPorts)

\* The fallback returned some but not all ports of the fixed list.
C19_Witness ==
    \E d \in Detects :
      /\ det[d].pc = "done"
      /\ det[d].probed = commonPorts
      /\ det[d].ports = <<80, 8080, 9000>>

\* C20: every discovery run that was issued eventually returns its message,
\* whatever the remote commands and probes do.
C20_DiscoverReturns ==
    \A d \in Detects : (det[d].pc # "idle") ~> (det[d].pc = "done" \/ ~Alive)

\* C21: findPreferredLocalPort(p) returns either (p, true) or (q, false) with
\* q a port other than p, also when other programs bind or release ports
\* while it runs.
C21_PreferredPortResult ==
    \A t \in Callers :
      (variant = "process" /\ caller[t].pc = "new") =>
        IF req[t].same
        THEN req[t].local = req[t].remote
        ELSE req[t].local # req[t].remote

\* Listeners that the allocation of request t holds open.
ProbeListeners(t) == {p \in Ports : bound[p] = <<"probe", t>>}

\* C22: the allocator only probes: outside isPortAvailable and
\* findAvailablePort, so in particular once findPreferredLocalPort has returned
\* a same-port result, an ephemeral result or an error, no listener that the
\* allocation opened is still open.
C22_AllocatorOnlyProbes ==
    \A t \in Callers :
      caller[t].pc \notin {"probe_close", "any_close"} => ProbeListeners(t) = {}

\* One allocation returned the same port and another one an ephemeral port, and
\* no listener of either is left.
C22_Witness ==
    \E t, u \in Callers :
      /\ variant = "process"
      /\ caller[t].pc = "new" /\ req[t].same
      /\ caller[u].pc = "new" /\ ~req[u].same
      /\ ProbeListeners(t) = {} /\ ProbeListeners(u) = {}

\* The text is not an integer from 1 to 65535.
NoPort(text) ==
    LET port == Atoi(text) IN port.err \/ port.val \notin 1..65535

\* C23: a manual command whose text is no port has returned an ErrorMsg and
\* has done nothing else: it took no remote port, probed no local port, created
\* no session and attempted no Start.
C23_BadManualTextIsError ==
    \A t \in Callers :
      (req[t].manual /\ NoPort(req[t].text)) =>
        /\ caller[t].pc = "done"
        /\ req[t].msg = "Error"
        /\ req[t].remote = 0 /\ req[t].local = 0
        /\ ProbeListeners(t) = {}
        /\ ~pf[t].made
        /\ hist[t].starts = 0
        /\ proc[t] = "none"
        /\ task[t] = NoTask

\* The text "70000" was refused while the other command forwards a port.
C23_Witness ==
    \E t, u \in Callers :
      /\ req[t].manual /\ req[t].text = <<"7", "0", "0", "0", "0">>
      /\ req[t].msg = "Error"
      /\ req[u].msg = "ForwardingStarted"

\* C24: a StartForward command returns one terminal message, when it is done
\* and not before; a ForwardingStartedMsg is returned only after Start
\* returned nil, its RemotePort is the port that was requested, its LocalPort
\* is the port the session was started on, and the two are equal exactly when
\* the same-port policy was used.
C24_OneTerminalEvent ==
    \A t \in Callers :
      /\ req[t].msg \in {"none", "ForwardingStarted", "Error"}
      /\ req[t].msg # "none" <=> caller[t].pc \in {"done", "delivered"}
      /\ req[t].msg = "ForwardingStarted" =>
           /\ caller[t].ret = "started"
           /\ pf[t].made /\ pf[t].remotePort = req[t].remote
           /\ req[t].manual => req[t].remote = Atoi(req[t].text).val
           /\ pf[t].localPort = req[t].local
           /\ req[t].local = req[t].remote <=> req[t].same

\* C25: two StartForward commands that run concurrently for the same remote
\* port, each on a session of its own, do not both report ForwardingStartedMsg
\* for one and the same local port: their local ports are distinct.
C25_ConcurrentStartsDistinctPorts ==
    \A t, u \in Callers :
      (/\ t # u
       /\ req[t].remote # 0 /\ req[t].remote = req[u].remote
       /\ req[t].msg = "ForwardingStarted" /\ req[u].msg = "ForwardingStarted")
        => req[t].local # req[u].local

\* File f has an Include directive that matches file g.
Includes(f, g) ==
    \E i \in DOMAIN sc.files[f] :
      sc.files[f][i].key = "include" /\ g \in sc.files[f][i].matches

\* The files that a chain of Include directives leads to from the files of S.
RECURSIVE IncludedFrom(_)
IncludedFrom(S) ==
    LET more == S \cup {g \in Files : \E f \in S : Includes(f, g)}
    IN  IF more = S THEN S ELSE IncludedFrom(more)

\* File f lies on a cycle of Include directives.
OnCycle(f) == f \in IncludedFrom({g \in Files : Includes(f, g)})

\* The files of the calls in progress, outermost first.
Loading == [i \in DOMAIN sc.stack |-> sc.stack[i].file]

C27_FirstListingWins ==
    /\ [](\A d \in Detects :
            /\ Len(det[d].ran) <= Len(commands)
            /\ \A i \in DOMAIN det[d].ran : det[d].ran[i] = i
            /\ det[d].pc = "done" => Len(det[d].ran) \in {0, det[d].k})
    /\ [][\A d \in Detects :
            (det[d].pc = "exec" /\ det'[d] # det[d]) =>
              /\ det'[d].ran = Append(det[d].ran, det[d].k)
              /\ IF ~det'[d].err /\ det'[d].output # <<>>
                 THEN /\ det'[d].pc = "done"
                      /\ det'[d].k = det[d].k
                      /\ det'[d].ports = parsePorts(det'[d].output)
                      /\ det'[d].probed = <<>>
                 ELSE IF det[d].k < Len(commands)
                      THEN det'[d].pc = "run" /\ det'[d].k = det[d].k + 1
                      ELSE det'[d].pc = "probe"]_vars

\* The second strategy gave the listing: lsof never ran, and two ports were
\* parsed.
C27_Witness ==
    \E d \in Detects :
      /\ det[d].pc = "done"
      /\ det[d].ran = <<1, 2>>
      /\ det[d].probed = <<>>
      /\ Len(det[d].ports) = 2

\* C28: the active-probe fallback executes no remote shell command: while a
\* run is in detectCommonPorts, and after it, every interaction with the remote
\* host on that path is a dial of a candidate port, so no probe has run a
\* command in the remote shell.
C28_ProbeRunsNoShell ==
    \A d \in Detects :
      /\ det[d].shell = <<>>
      /\ det[d].pc = "probe" => Len(det[d].probed) = det[d].i - 1

\* A line of a listing that names a port: after trimming it is a decimal
\* number from 1 to 65535.
ValidPortLine(line) ==
    /\ TrimSpace(line) # <<>>
    /\ ~Atoi(TrimSpace(line)).err
    /\ Atoi(TrimSpace(line)).val \in 1..65535

\* An output a strategy succeeded with, none of whose lines names a port.
NoPortListing(err, output) ==
    /\ ~err
    /\ output # <<>>
    /\ \A i \in DOMAIN output : ~ValidPortLine(output[i])

\* C29: when a strategy succeeds with a non-empty output without a valid port
\* line, the run ends there with an empty list: the strategies after it are
\* not run and no port is probed.
C29_ListingWithoutPortsIsEmpty ==
    /\ [](\A d \in Detects :
            NoPortListing(det[d].err, det[d].output) =>
              /\ det[d].pc = "done"
              /\ det[d].msg = "PortsDetected"
              /\ det[d].ports = <<>>
              /\ det[d].probed = <<>>
              /\ det[d].ran = [j \in 1..det[d].k |-> j])
    /\ [][\A d \in Detects :
            NoPortListing(det[d].err, det[d].output) => det'[d] = det[d]]_vars

C29_Witness ==
    \E d \in Detects :
      /\ det[d].pc = "done"
      /\ NoPortListing(det[d].err, det[d].output)
      /\ \E i \in DOMAIN det[d].output : TrimSpace(det[d].output[i]) # <<>>
      /\ det[d].ran = <<1>>
      /\ det[d].ports = <<>>
      /\ remoteHost.listening \cap {commonPorts[i] : i \in DOMAIN commonPorts} # {}

\* C30: in the process build, a Stop on a running session has killed the ssh
\* process of the session by the time it waits for the monitor task, and under
\* fair scheduling of the goroutines it returns with the monitor task ended,
\* whether the monitor saw the closed stop channel or was already in Wait().
C30_StopKillsThenReturns ==
    /\ [](variant = "process" =>
            \A t \in Callers :
              caller[t].pc = "stop_wait" => ~ProcAlive(SessOf(t)))
    /\ \A t \in Callers :
         (variant = "process" /\ caller[t].pc = "stop_release")
           ~> /\ caller[t].pc = "returned"
              /\ caller[t].ret = "stopped"
              /\ task[SessOf(t)].monitor = "done"

C30_Witness ==
    \E t \in Callers :
      /\ variant = "process"
      /\ caller[t].pc = "stop_wait"
      /\ task[SessOf(t)].monitor = "wait"
      /\ proc[SessOf(t)] = "killed"
      /\ pf[SessOf(t)].wg = 1

\* C31: Stop closes the stop channel before it closes the listener: a closed
\* listener implies a closed stop channel.  The accept loop therefore never
\* iterates on a listener Stop has closed: its Accept fails, the error check
\* finds the stop channel closed and returns, and a loop that was launching a
\* handler returns at its next select; under fair scheduling the loop ends.
C31_AcceptLoopExitsOnClose ==
    /\ [](\A s \in Sessions :
            pf[s].listener = "closed" => pf[s].stopChan = "closed")
    /\ [][\A s \in Sessions :
            (pf[s].listener = "closed" /\ task'[s].accept # task[s].accept) =>
              \/ task[s].accept = "accept" /\ task'[s].accept = "errcheck"
              \/ task[s].accept = "errcheck" /\ task'[s].accept = "done"
              \/ task[s].accept = "spawn" /\ task'[s].accept = "select"
              \/ task[s].accept = "select" /\ task'[s].accept = "done"]_vars
    /\ \A s \in Sessions :
         (pf[s].listener = "closed" /\ task[s].accept # "none")
           ~> (task[s].accept = "done")

C31_Witness ==
    \E s \in Sessions :
      /\ variant = "listener"
      /\ pf[s].listener = "closed"
      /\ pf[s].stopChan = "closed"
      /\ task[s].accept = "errcheck"
      /\ \E t \in Callers : caller[t].pc = "stop_wait" /\ SessOf(t) = s

\* The connections of session s whose handler was launched and has not ended.
LiveHandlers(s) ==
    {c \in Conns : conns[c].s = s
                     /\ conns[c].st \in {"dial", "dial_failed", "copy", "exiting"}}

\* C32: the accept loop adds the handler of an accepted connection to the
\* session's WaitGroup before it launches it and before its own Done, so the
\* count covers the live accept loop and every live handler (in the listener
\* build it is exactly their number) and is positive while an accepted
\* connection awaits its handler; Stop's wait returns only when no handler of
\* the session is live and no accepted connection is left without one.
C32_HandlersAreCounted ==
    /\ [](\A s \in Sessions :
            LET loop == IF task[s].accept \in {"none", "done"} THEN 0 ELSE 1
                tasks == Cardinality(LiveHandlers(s)) + loop
            IN  /\ pf[s].wg >= tasks
                /\ variant = "listener" => pf[s].wg = tasks
                /\ (\E c \in Conns : conns[c].s = s /\ conns[c].st = "accepted")
                     => loop = 1)
    /\ [][\A t \in Callers :
            (caller[t].pc = "stop_wait" /\ caller'[t].pc = "returned") =>
              /\ LiveHandlers(SessOf(t)) = {}
              /\ \A c \in Conns :
                   conns[c].s = SessOf(t) => conns[c].st # "accepted"]_vars

\* Stop waits for a handler alone: the accept loop has returned.
C32_Witness ==
    \E t \in Callers :
      /\ caller[t].pc = "stop_wait"
      /\ task[SessOf(t)].accept = "done"
      /\ pf[SessOf(t)].wg = 1
      /\ \E c \in LiveHandlers(SessOf(t)) : conns[c].st = "dial"

\* C33: whenever Enter can be handled in the port-selection state the cursor
\* is a valid index of the port list, and with an empty port list a step taken
\* in that state issues no StartForward request and indexes nothing (the
\* program does not panic).
C33_EnterIndexesValidPort ==
    /\ []((Ready /\ m.state = "SelectPort" /\ m.ports # <<>>)
            => m.cursor \in 0..(Len(m.ports) - 1))
    /\ [][(Ready /\ m.state = "SelectPort" /\ m.ports = <<>>) =>
            /\ crashed' = crashed
            /\ \A t \in Callers : req[t] = NoRequest => req'[t] = NoRequest]_vars

\* C34: no handler indexes the host list out of range: a step in which the
\* program panics is never one taken with cursor or selectedHost outside
\* 0..len(hosts)-1, and the host selection never holds such a cursor when the
\* list has hosts.
C34_HostIndexValid ==
    /\ [](m.hosts > 0 => (m.cursor >= 0 /\ m.selectedHost \in 0..(m.hosts - 1)))
    /\ [][(~crashed /\ crashed') =>
            /\ m.selectedHost \in 0..(m.hosts - 1)
            /\ m.state = "SelectHost" => m.cursor \in 0..(m.hosts - 1)]_vars

\* C35: in the port-selection state the port list shown is the result of a
\* discovery run on the selected host, hosts[selectedHost].
C35_PortsOfSelectedHost ==
    m.state = "SelectPort" =>
      \E d \in Detects :
        /\ det[d].pc = "delivered"
        /\ det[d].host = m.selectedHost
        /\ det[d].ports = m.ports

\* C36: the TUI is in the host selection while a discovery run is still under
\* way or undelivered only after Esc cancelled it in the connecting state; the
\* arrival of that run's result then leaves the TUI in the host selection with
\* its port list unchanged.
C36_CancelledResultIgnored ==
    [][\A d \in Detects :
         (m.state = "SelectHost" /\ det[d].pc = "done" /\ det'[d].pc = "delivered")
           => (m'.state = "SelectHost" /\ m'.ports = m.ports)]_vars

\* Every character of the text is a decimal digit.
AllDigits(text) == \A i \in DOMAIN text : IsDigit(text[i])

\* C37: the manual-port buffer holds decimal digits only.  It changes in three
\* ways only: a digit key appends that digit, Backspace removes its last
\* digit, and `m` in a selection state opens the entry with an empty buffer;
\* every other key leaves it as it is.  Enter with an empty buffer issues no
\* StartForward request, and a manual request carries a non-empty digit text.
C37_ManualBufferIsDigits ==
    /\ [](AllDigits(m.manualPort))
    /\ [](\A t \in Callers :
            req[t].manual => (req[t].text # <<>> /\ AllDigits(req[t].text)))
    /\ [][m'.manualPort # m.manualPort =>
            \/ /\ m.state = "ManualPort" /\ m'.state = "ManualPort"
               /\ \E key \in Keys :
                    IsDigit(key) /\ m'.manualPort = Append(m.manualPort, key)
            \/ /\ m.state = "ManualPort" /\ m'.state = "ManualPort"
               /\ m.manualPort # <<>>
               /\ m'.manualPort = SubSeq(m.manualPort, 1, Len(m.manualPort) - 1)
            \/ /\ m.state \in {"SelectHost", "SelectPort"}
               /\ m'.state = "ManualPort"
               /\ m'.manualPort = <<>>]_vars
    /\ [][(m.state = "ManualPort" /\ m.manualPort = <<>>) =>
            \A t \in Callers : req[t] = NoRequest => req'[t] = NoRequest]_vars

\* A request was issued from a two-digit buffer, one digit of which has since
\* been removed.
C37_Witness ==
    /\ m.state = "ManualPort"
    /\ Len(m.manualPort) = 1
    /\ \E t \in Callers :
         /\ req[t].manual
         /\ Len(req[t].text) = 2
         /\ m.manualPort = SubSeq(req[t].text, 1, 1)

====
